---- MODULE Spec2Model ----
(***************************************************************************)
(* Signing and key-custody core of the trustlines clientlib:               *)
(*   - EthersWallet (wallets/EthersWallet.ts): the derived-key backend,    *)
(*     one mutable slot `walletFromEthers` per instance;                   *)
(*   - the vault backend (signers/LightwalletSigner), known through its    *)
(*     unit tests;                                                         *)
(*   - Exchange (Exchange.ts): makeOrder and prepTakeOrder, asynchronous   *)
(*     pipelines whose awaits interleave with wallet calls.                *)
(***************************************************************************)
EXTENDS Integers, Sequences, FiniteSets, TLC

VARIABLES
  walletFromEthers, \* EthersWallet.walletFromEthers, per wallet instance
  last,             \* the last completed EthersWallet call and what it did
  loadedData,       \* history: per instance, the container of the last successful loadFrom
  lwAccount,        \* the vault backend's loaded account
  lwLast,           \* the last completed vault-backend call
  mo,               \* the pending Exchange.makeOrder call
  pt,               \* the pending Exchange.prepTakeOrder call
  co,               \* the pending Exchange.cancelOrder call
  hq,               \* the last Exchange.getOrderHashHex evaluation
  held,             \* history: the value a caller holds from the wallet calls it chained
  seedSeen,         \* history: per seed, the address recoverFromSeed answered first
  pendingSign       \* the pending signMsgHash, signMessage or confirm call of instance "tl"

vars == <<walletFromEthers, last, loadedData, lwAccount, lwLast, mo, pt, co, hq, held,
          seedSeen, pendingSign>>

-----------------------------------------------------------------------------
(* Values *)

\* EthersWallet instances: the one the TLNetwork constructs (its wallet and
\* its signer), and another one constructed independently.
Wallets == {"tl", "other"}

\* JavaScript `undefined`: a slot never assigned, a missing result.
Undefined == [undefined |-> TRUE]

\* A mnemonic that is absent (accounts recovered from a raw private key).
NoMnemonic == "undefined"

PrivateKeys == {"k1", "k2", "k3"}
Mnemonics == {"m1", "m2"}

\* The address is a pure function of the private key.
AddressOf(privateKey) ==
  CASE privateKey = "k1" -> "0xA1"
    [] privateKey = "k2" -> "0xA2"
    [] privateKey = "k3" -> "0xA3"

\* The fixed derivation path turns a mnemonic into one private key.
KeyOfMnemonic(mnemonic) ==
  CASE mnemonic = "m1" -> "k1"
    [] mnemonic = "m2" -> "k2"

Passwords == {"pw1", "pw2"}

Ok(v) == [ok |-> TRUE, err |-> "", val |-> v]
Err(e) == [ok |-> FALSE, err |-> e, val |-> Undefined]

\* What a handler did: the slot it leaves, its result, the collaborator calls it made.
Out(slot, res, calls) == [slot |-> slot, res |-> res, calls |-> calls]

-----------------------------------------------------------------------------
(* Error texts *)

EW_NO_WALLET == "No wallet loaded."
EW_NOT_HEX == "Message hash is not a valid hex string."
EW_NOT_IMPLEMENTED == "Method not implemented."
LW_NO_ACCOUNT == "No account/keystore loaded."
ERR_WALLET_TYPE == "The wallet data type must be: ethers"
ERR_WALLET_VERSION == "The wallet data version is not handled"
ERR_INVALID_KEY == "invalid private key"
ERR_INVALID_MNEMONIC == "invalid mnemonic"
ERR_INVALID_KEYSTORE == "invalid JSON wallet"
ERR_INVALID_PASSWORD == "invalid password"
ERR_INVALID_TX == "invalid transaction"
ERR_TRANSPORT == "transport failure"

-----------------------------------------------------------------------------
(* TLWallet.ts: container tag and versions *)

WALLET_TYPE_ETHERS == "ethers"
EXPECTED_VERSIONS == {1}

\* verifyWalletData(walletData, walletType, expectedVersions): "" when the
\* container is accepted, else the text of the error it throws.
verifyWalletData(walletData, walletType, expectedVersions) ==
  IF walletData.type # walletType THEN ERR_WALLET_TYPE
  ELSE IF walletData.version \notin expectedVersions THEN ERR_WALLET_VERSION
  ELSE ""

-----------------------------------------------------------------------------
(* WalletFromEthers: one keypair, optionally with the mnemonic it came from *)

WalletFromEthers(privateKey, mnemonic) ==
  [address |-> AddressOf(privateKey), privateKey |-> privateKey, mnemonic |-> mnemonic]

Accounts ==
  {WalletFromEthers(KeyOfMnemonic(m), m) : m \in Mnemonics}
    \cup {WalletFromEthers(k, NoMnemonic) : k \in PrivateKeys}

toEthersWalletData(wfe) ==
  [type |-> WALLET_TYPE_ETHERS, version |-> 1, address |-> wfe.address,
   privateKey |-> wfe.privateKey, mnemonic |-> wfe.mnemonic]

\* WalletFromEthers.fromWalletData: rebuilds the keypair from the payload;
\* throws on a payload that holds no valid private key.
fromWalletData(walletData) ==
  IF walletData.privateKey \in PrivateKeys
    THEN Ok(WalletFromEthers(walletData.privateKey, walletData.mnemonic))
    ELSE Err(ERR_INVALID_KEY)

\* WalletFromEthers.fromMnemonic
fromMnemonic(seed) ==
  IF seed \in Mnemonics THEN Ok(WalletFromEthers(KeyOfMnemonic(seed), seed))
  ELSE Err(ERR_INVALID_MNEMONIC)

\* new WalletFromEthers(privateKey)
fromPrivateKey(privateKey) ==
  IF privateKey \in PrivateKeys THEN Ok(WalletFromEthers(privateKey, NoMnemonic))
  ELSE Err(ERR_INVALID_KEY)

\* WalletFromEthers.encrypt: ethereum JSON keystore v3 under a password.
encryptKeystore(wfe, password) ==
  [wellFormed |-> TRUE, password |-> password,
   privateKey |-> wfe.privateKey, mnemonic |-> wfe.mnemonic]

\* WalletFromEthers.fromEncryptedJson
fromEncryptedJson(keystore, password) ==
  IF ~keystore.wellFormed THEN Err(ERR_INVALID_KEYSTORE)
  ELSE IF keystore.password # password THEN Err(ERR_INVALID_PASSWORD)
  ELSE Ok(WalletFromEthers(keystore.privateKey, keystore.mnemonic))

-----------------------------------------------------------------------------
(* Inputs of the wallet calls *)

\* Containers handed to loadFrom: produced by create/recover*, or carrying
\* another tag, another version, or a corrupt payload.
WalletDatas ==
  {[toEthersWalletData(a) EXCEPT !.type = t, !.version = v] :
      a \in Accounts, t \in {WALLET_TYPE_ETHERS, "identity"}, v \in {1, 2}}
    \cup {[type |-> t, version |-> 1, address |-> "0xA1",
           privateKey |-> "corrupt", mnemonic |-> NoMnemonic] :
            t \in {WALLET_TYPE_ETHERS, "identity"}}

Keystores ==
  {encryptKeystore(a, p) : a \in {WalletFromEthers("k1", "m1"), WalletFromEthers("k3", NoMnemonic)},
                           p \in Passwords}
    \cup {[wellFormed |-> FALSE, password |-> "pw1", privateKey |-> "k1", mnemonic |-> NoMnemonic]}

\* Arguments of signMsgHash: a 32-byte hex digest, a shorter hex string,
\* a string that is not hex.
MsgHashes ==
  {[hex |-> TRUE, bytes |-> 32, body |-> <<"h1">>],
   [hex |-> TRUE, bytes |-> 2, body |-> <<"h2">>],
   [hex |-> FALSE, bytes |-> 0, body |-> <<"zz">>]}

RawTxs ==
  {[to |-> "0xA2", nonce |-> 5, wellFormed |-> TRUE],
   [to |-> "0xA2", nonce |-> 5, wellFormed |-> FALSE]}

\* Arguments of encrypt and decrypt: a message, a public key.
Messages == {"hello world!", ""}
PubKeys == {"pub1", "not a key"}

\* Outcomes of a provider (transport) request.
SendResults == {Ok("txid1"), Err(ERR_TRANSPORT)}
FetchResults == {Ok("7"), Err(ERR_TRANSPORT)}

-----------------------------------------------------------------------------
(* EthersWallet: handlers.  `slot` is this.walletFromEthers at the call. *)

\* get address()
address(slot) ==
  IF slot = Undefined THEN Out(slot, Err(EW_NO_WALLET), <<>>)
  ELSE Out(slot, Ok(slot.address), <<>>)

getAddress(slot) ==
  IF slot = Undefined THEN Out(slot, Err(EW_NO_WALLET), <<>>)
  ELSE address(slot)

getWalletData(slot) ==
  IF slot = Undefined THEN Out(slot, Err(EW_NO_WALLET), <<>>)
  ELSE Out(slot, Ok(toEthersWalletData(slot)), <<"WalletFromEthers.toEthersWalletData">>)

createLoading(slot, mnemonic) ==
  Out(WalletFromEthers(KeyOfMnemonic(mnemonic), mnemonic),
      Ok(toEthersWalletData(WalletFromEthers(KeyOfMnemonic(mnemonic), mnemonic))),
      <<"WalletFromEthers.createRandom", "WalletFromEthers.toEthersWalletData">>)

\* create(): `mnemonic` is the fresh mnemonic createRandom draws.
create(slot, mnemonic) ==
  Out(slot, Ok(toEthersWalletData(WalletFromEthers(KeyOfMnemonic(mnemonic), mnemonic))),
      <<"WalletFromEthers.createRandom", "WalletFromEthers.toEthersWalletData">>)

deployIdentity(slot) == address(slot)

isIdentityDeployed(slot) == Out(slot, Ok(TRUE), <<>>)

encryptToSerializedKeystoreOfLoaded(slot, walletData, password) ==
  IF slot = Undefined THEN Out(slot, Err(EW_NO_WALLET), <<>>)
  ELSE Out(slot, Ok(encryptKeystore(slot, password)), <<"WalletFromEthers.encrypt">>)

encryptToSerializedKeystore(slot, walletData, password) ==
  LET w == fromWalletData(walletData) IN
    IF ~w.ok THEN Out(slot, Err(w.err), <<"WalletFromEthers.fromWalletData">>)
    ELSE Out(slot, Ok(encryptKeystore(w.val, password)),
             <<"WalletFromEthers.fromWalletData", "WalletFromEthers.encrypt">>)

loadFromUnverified(slot, walletData) ==
  LET w == fromWalletData(walletData)
      e == verifyWalletData(walletData, WALLET_TYPE_ETHERS, EXPECTED_VERSIONS) IN
    IF ~w.ok THEN Out(slot, Err(w.err), <<"WalletFromEthers.fromWalletData">>)
    ELSE IF e # "" THEN
      Out(w.val, Err(e), <<"WalletFromEthers.fromWalletData", "verifyWalletData">>)
    ELSE Out(w.val, Ok(Undefined), <<"WalletFromEthers.fromWalletData", "verifyWalletData">>)

loadFromClearing(slot, walletData) ==
  LET e == verifyWalletData(walletData, WALLET_TYPE_ETHERS, EXPECTED_VERSIONS)
      w == fromWalletData(walletData) IN
    IF e # "" THEN Out(Undefined, Err(e), <<"verifyWalletData">>)
    ELSE IF ~w.ok THEN
      Out(Undefined, Err(w.err), <<"verifyWalletData", "WalletFromEthers.fromWalletData">>)
    ELSE Out(w.val, Ok(Undefined), <<"verifyWalletData", "WalletFromEthers.fromWalletData">>)

\* loadFrom(walletData): verify, then build the account, then assign the slot.
loadFrom(slot, walletData) ==
  LET e == verifyWalletData(walletData, WALLET_TYPE_ETHERS, EXPECTED_VERSIONS)
      w == fromWalletData(walletData) IN
    IF e # "" THEN Out(slot, Err(e), <<"verifyWalletData">>)
    ELSE IF ~w.ok THEN
      Out(slot, Err(w.err), <<"verifyWalletData", "WalletFromEthers.fromWalletData">>)
    ELSE Out(w.val, Ok(Undefined), <<"verifyWalletData", "WalletFromEthers.fromWalletData">>)

recoverFromEncryptedKeystoreLoading(slot, keystore, password) ==
  LET w == fromEncryptedJson(keystore, password) IN
    IF ~w.ok THEN Out(slot, Err(w.err), <<"WalletFromEthers.fromEncryptedJson">>)
    ELSE Out(w.val, Ok(toEthersWalletData(w.val)),
             <<"WalletFromEthers.fromEncryptedJson", "WalletFromEthers.toEthersWalletData">>)

recoverFromEncryptedKeystore(slot, keystore, password) ==
  LET w == fromEncryptedJson(keystore, password) IN
    IF ~w.ok THEN Out(slot, Err(w.err), <<"WalletFromEthers.fromEncryptedJson">>)
    ELSE Out(slot, Ok(toEthersWalletData(w.val)),
             <<"WalletFromEthers.fromEncryptedJson", "WalletFromEthers.toEthersWalletData">>)

recoverFromSeedOfLoaded(slot, seed) ==
  LET w == fromMnemonic(seed) IN
    IF ~w.ok THEN Out(slot, Err(w.err), <<"WalletFromEthers.fromMnemonic">>)
    ELSE IF slot # Undefined THEN
      Out(slot, Ok(toEthersWalletData(slot)), <<"WalletFromEthers.toEthersWalletData">>)
    ELSE Out(slot, Ok(toEthersWalletData(w.val)),
             <<"WalletFromEthers.fromMnemonic", "WalletFromEthers.toEthersWalletData">>)

recoverFromSeed(slot, seed) ==
  LET w == fromMnemonic(seed) IN
    IF ~w.ok THEN Out(slot, Err(w.err), <<"WalletFromEthers.fromMnemonic">>)
    ELSE Out(slot, Ok(toEthersWalletData(w.val)),
             <<"WalletFromEthers.fromMnemonic", "WalletFromEthers.toEthersWalletData">>)

recoverFromPrivateKey(slot, privateKey) ==
  LET w == fromPrivateKey(privateKey) IN
    IF ~w.ok THEN Out(slot, Err(w.err), <<"new WalletFromEthers">>)
    ELSE Out(slot, Ok(toEthersWalletData(w.val)),
             <<"new WalletFromEthers", "WalletFromEthers.toEthersWalletData">>)

\* ethersUtils.isHexString(msgHash), called without a length.
isHexString(msgHash) == msgHash.hex

\* ethersUtils.arrayify
arrayify(msgHash) == [bytes |-> msgHash.bytes, body |-> msgHash.body]

\* WalletFromEthers.signMessage: the personal-message scheme (prefix, length,
\* payload) signed with the account's key.
personalSign(wfe, message) ==
  [signer |-> wfe.privateKey,
   signed |-> [prefix |-> "\\x19Ethereum Signed Message:\\n",
               length |-> message.bytes, payload |-> message.body]]

\* signMessage(message)
signMessage(slot, message) ==
  IF slot = Undefined THEN Out(slot, Err(EW_NO_WALLET), <<>>)
  ELSE LET flat == personalSign(slot, message) IN
    Out(slot, Ok([concatSig |-> flat, ecSignature |-> flat]),
        <<"WalletFromEthers.signMessage">>)

signMsgHashValidatingFirst(slot, msgHash) ==
  IF ~isHexString(msgHash) THEN Out(slot, Err(EW_NOT_HEX), <<>>)
  ELSE IF slot = Undefined THEN Out(slot, Err(EW_NO_WALLET), <<>>)
  ELSE signMessage(slot, arrayify(msgHash))

\* signMsgHash(msgHash)
signMsgHash(slot, msgHash) ==
  IF slot = Undefined THEN Out(slot, Err(EW_NO_WALLET), <<>>)
  ELSE IF ~isHexString(msgHash) THEN Out(slot, Err(EW_NOT_HEX), <<>>)
  ELSE signMessage(slot, arrayify(msgHash))

confirmRetrying(slot, rawTx, sent) ==
  IF slot = Undefined THEN Out(slot, Err(EW_NO_WALLET), <<>>)
  ELSE IF ~rawTx.wellFormed THEN Out(slot, Err(ERR_INVALID_TX), <<"WalletFromEthers.sign">>)
  ELSE IF ~sent.ok THEN
    Out(slot, sent, <<"WalletFromEthers.sign", "provider.sendSignedTransaction",
                      "provider.sendSignedTransaction">>)
  ELSE Out(slot, sent, <<"WalletFromEthers.sign", "provider.sendSignedTransaction">>)

\* confirm(rawTx): sign the transaction, then relay it; `sent` is what
\* provider.sendSignedTransaction answers.
confirm(slot, rawTx, sent) ==
  IF slot = Undefined THEN Out(slot, Err(EW_NO_WALLET), <<>>)
  ELSE IF ~rawTx.wellFormed THEN Out(slot, Err(ERR_INVALID_TX), <<"WalletFromEthers.sign">>)
  ELSE Out(slot, sent, <<"WalletFromEthers.sign", "provider.sendSignedTransaction">>)

\* What user.signTx(rawTx) settles to.
SignTxResults == {Ok("signedTx"), Err(EW_NO_WALLET), Err(ERR_INVALID_TX)}

\* Exchange.confirm(rawTx): await user.signTx, then transaction.relayTx;
\* `signed` and `relayed` are what the two settle to.
exchangeConfirm(rawTx, signed, relayed) ==
  IF ~signed.ok THEN [res |-> signed, calls |-> <<"user.signTx">>]
  ELSE [res |-> relayed, calls |-> <<"user.signTx", "transaction.relayTx">>]

\* utils.calcRaw(value, decimals): value * 10^decimals, kept exact as
\* coefficient and exponent.
calcRaw(value, decimals) == [coef |-> value, exp10 |-> decimals]

\* utils.formatToAmount(raw, decimals)
formatToAmount(raw, decimals) == [raw |-> raw, value |-> raw.coef, decimals |-> decimals]

\* getBalance(): `fetched` is what provider.fetchEndpoint answers.
getBalance(slot, fetched) ==
  IF slot = Undefined THEN Out(slot, Err(EW_NO_WALLET), <<>>)
  ELSE IF ~fetched.ok THEN Out(slot, fetched, <<"provider.fetchEndpoint">>)
  ELSE Out(slot, Ok(formatToAmount(calcRaw(fetched.val, 18), 18)), <<"provider.fetchEndpoint">>)

showSeedOfKey(slot) ==
  IF slot = Undefined THEN Out(slot, Err(EW_NO_WALLET), <<>>)
  ELSE Out(slot, Ok(slot.privateKey), <<>>)

showSeed(slot) ==
  IF slot = Undefined THEN Out(slot, Err(EW_NO_WALLET), <<>>)
  ELSE Out(slot, Ok(slot.mnemonic), <<>>)

exportPrivateKey(slot) ==
  IF slot = Undefined THEN Out(slot, Err(EW_NO_WALLET), <<>>)
  ELSE Out(slot, Ok(slot.privateKey), <<>>)

encryptRequiringWallet(slot, msg, theirPubKey) ==
  IF slot = Undefined THEN Out(slot, Err(EW_NO_WALLET), <<>>)
  ELSE Out(slot, Err(EW_NOT_IMPLEMENTED), <<>>)

\* encrypt(msg, theirPubKey)
encrypt(slot, msg, theirPubKey) == Out(slot, Err(EW_NOT_IMPLEMENTED), <<>>)

\* decrypt(encMsg, theirPubKey)
decrypt(slot, encMsg, theirPubKey) == Out(slot, Err(EW_NOT_IMPLEMENTED), <<>>)

\* Addresses a caller asks transaction infos for.
QueriedAddresses == {"0xA1", "0xA2"}

\* The relay's transaction infos of an address.
TxInfosOf(a) ==
  [nonce |-> IF a = "0xA1" THEN 5 ELSE 0,
   gasPrice |-> "2000000",
   balance |-> IF a = "0xA1" THEN "7" ELSE "0"]

\* The provider: what provider.getTxInfos answers for each address, the relay
\* being reachable or not.
TxInfoProviders ==
  {[a \in QueriedAddresses |-> Ok(TxInfosOf(a))],
   [a \in QueriedAddresses |-> Err(ERR_TRANSPORT)]}

getTxInfosOfLoaded(slot, userAddress, provider) ==
  IF slot = Undefined THEN Out(slot, Err(EW_NO_WALLET), <<>>)
  ELSE IF slot.address \in QueriedAddresses
    THEN Out(slot, provider[slot.address], <<"provider.getTxInfos">>)
    ELSE Out(slot, Err(ERR_TRANSPORT), <<"provider.getTxInfos">>)

\* getTxInfos(userAddress): returns provider.getTxInfos(userAddress).
getTxInfos(slot, userAddress, provider) ==
  Out(slot, provider[userAddress], <<"provider.getTxInfos">>)

-----------------------------------------------------------------------------
(* The vault backend (LightwalletSigner), as its unit tests pin it down *)

\* Keystore steps the tests make fail one at a time (FakeEthLightwallet.setError).
LWSteps == {"createVault", "generateRandomSeed", "upgradeOldSerialized", "keyFromPassword",
            "generateNewAddress", "addressToPublicEncKey", "signMsgHash",
            "multiEncryptString"}

\* Serialized vaults: keystore1 is of the current format, keystore2 of the legacy one.
LWKeystores == {[format |-> f, seed |-> s] : f \in {"current", "legacy"}, s \in {"s1", "s2"}}

\* The first account derived from a vault's seed.
lwAccountOf(seed) ==
  [address |-> IF seed = "s1" THEN "0xB1" ELSE "0xB2",
   pubKey |-> IF seed = "s1" THEN "pub1" ELSE "pub2",
   keystore |-> [format |-> "current", seed |-> seed]]

lwLoadStepsNoUpgrade(keystore) ==
  <<"keyFromPassword", "generateNewAddress", "addressToPublicEncKey">>

\* The keystore steps loadAccount runs, in order.
lwLoadSteps(keystore) ==
  (IF keystore.format = "legacy" THEN <<"upgradeOldSerialized">> ELSE <<>>)
    \o <<"keyFromPassword", "generateNewAddress", "addressToPublicEncKey">>

\* The steps run up to and including the failing one (all of them if none fails).
RECURSIVE lwRunUntil(_, _)
lwRunUntil(steps, failing) ==
  IF steps = <<>> THEN <<>>
  ELSE IF Head(steps) = failing THEN <<Head(steps)>>
  ELSE <<Head(steps)>> \o lwRunUntil(Tail(steps), failing)

lwFailsOnFirstOnly(steps, failing) == steps # <<>> /\ steps[1] = failing

lwFails(steps, failing) == \E i \in 1..Len(steps) : steps[i] = failing

\* The keystore steps createAccount runs, in order.
lwCreateSteps ==
  <<"generateRandomSeed", "createVault", "keyFromPassword", "generateNewAddress",
    "addressToPublicEncKey">>

\* createAccount(): `seed` is the seed generateRandomSeed draws; the tests do
\* not tell whether the created account stays loaded, `keeps` is either.
lwCreateAccount(acct, seed, keeps, failing) ==
  IF lwFails(lwCreateSteps, failing)
    THEN Out(acct, Err(failing), lwRunUntil(lwCreateSteps, failing))
    ELSE Out(IF keeps THEN lwAccountOf(seed) ELSE acct, Ok(lwAccountOf(seed)), lwCreateSteps)

\* loadAccount(serializedKeystore)
lwLoadAccount(acct, keystore, failing) ==
  LET steps == lwLoadSteps(keystore) IN
    IF lwFails(steps, failing) THEN Out(acct, Err(failing), lwRunUntil(steps, failing))
    ELSE Out(lwAccountOf(keystore.seed), Ok(lwAccountOf(keystore.seed)), steps)

\* getBalance()
lwGetBalance(acct, fetched) ==
  IF acct = Undefined THEN Out(acct, Err(LW_NO_ACCOUNT), <<>>)
  ELSE IF ~fetched.ok THEN Out(acct, fetched, <<"utils.fetchUrl">>)
  ELSE Out(acct, Ok(formatToAmount(calcRaw(fetched.val, 18), 18)), <<"utils.fetchUrl">>)

\* signMsgHash(msgHash)
lwSignMsgHash(acct, msgHash, failing) ==
  LET steps == <<"keyFromPassword", "signMsgHash">> IN
    IF acct = Undefined THEN Out(acct, Err(LW_NO_ACCOUNT), <<>>)
    ELSE IF lwFails(steps, failing) THEN Out(acct, Err(failing), lwRunUntil(steps, failing))
    ELSE Out(acct, Ok([ecSignature |-> [signer |-> acct.address, signed |-> msgHash],
                       concatSig |-> [signer |-> acct.address, signed |-> msgHash]]), steps)

\* getTxInfos(userAddress): the test calls it on a signer with no account.
lwGetTxInfos(acct, userAddress, provider) ==
  Out(acct, provider[userAddress], <<"utils.fetchUrl">>)

\* encrypt(msg, theirPubKey)
lwEncrypt(acct, theirPubKey, failing) ==
  LET steps == <<"keyFromPassword", "multiEncryptString">> IN
    IF acct = Undefined THEN Out(acct, Err(LW_NO_ACCOUNT), <<>>)
    ELSE IF lwFails(steps, failing) THEN Out(acct, Err(failing), lwRunUntil(steps, failing))
    ELSE Out(acct, Ok([version |-> 1, asymAlg |-> "curve25519-xsalsa20-poly1305",
                       from |-> acct.pubKey, to |-> theirPubKey]), steps)

-----------------------------------------------------------------------------
(* Wallet actions: one per public method *)

\* The TLNetwork constructs one EthersWallet and uses it as its wallet and as
\* its signer.
TLNetwork == [wallet |-> "tl", signer |-> "tl"]

\* A caller that holds nothing yet.
HeldNothing == [kind |-> "nothing", val |-> Undefined, origin |-> "none",
                container |-> Undefined, password |-> "none"]

MakingOps == {"create", "recoverFromSeed", "recoverFromPrivateKey",
              "recoverFromEncryptedKeystore", "loadFrom"}

EWCallShared(w, op, arg, out, h) ==
  /\ walletFromEthers' = [x \in Wallets |-> out.slot]
  /\ last' = [w |-> w, op |-> op, arg |-> arg, pre |-> walletFromEthers[w],
              res |-> out.res, calls |-> out.calls]
  /\ loadedData' = IF op = "loadFrom" /\ out.res.ok
                     THEN [loadedData EXCEPT ![w] = arg] ELSE loadedData
  /\ seedSeen' = IF op = "recoverFromSeed" /\ out.res.ok /\ seedSeen[arg] = "none"
                   THEN [seedSeen EXCEPT ![arg] = out.res.val.address] ELSE seedSeen
  /\ held' = h
  /\ UNCHANGED <<lwAccount, lwLast, mo, pt, co, hq, pendingSign>>

\* A completed call `op(arg)` on instance w with outcome `out`; the caller
\* then holds `h`.
EWCallH(w, op, arg, out, h) ==
  /\ walletFromEthers' = [walletFromEthers EXCEPT ![w] = out.slot]
  /\ last' = [w |-> w, op |-> op, arg |-> arg, pre |-> walletFromEthers[w],
              res |-> out.res, calls |-> out.calls]
  /\ loadedData' = IF op = "loadFrom" /\ out.res.ok
                     THEN [loadedData EXCEPT ![w] = arg] ELSE loadedData
  /\ seedSeen' = IF op = "recoverFromSeed" /\ out.res.ok /\ seedSeen[arg] = "none"
                   THEN [seedSeen EXCEPT ![arg] = out.res.val.address] ELSE seedSeen
  /\ held' = h
  /\ UNCHANGED <<lwAccount, lwLast, mo, pt, co, hq, pendingSign>>

EWCall(w, op, arg, out) == EWCallH(w, op, arg, out, held)

Address(w) == EWCall(w, "address", Undefined, address(walletFromEthers[w]))

GetAddress(w) == EWCall(w, "getAddress", Undefined, getAddress(walletFromEthers[w]))

GetWalletData(w) == EWCall(w, "getWalletData", Undefined, getWalletData(walletFromEthers[w]))

Create(w) ==
  \E m \in Mnemonics : EWCall(w, "create", Undefined, create(walletFromEthers[w], m))

DeployIdentity(w) == EWCall(w, "deployIdentity", Undefined, deployIdentity(walletFromEthers[w]))

IsIdentityDeployed(w) ==
  EWCall(w, "isIdentityDeployed", Undefined, isIdentityDeployed(walletFromEthers[w]))

EncryptToSerializedKeystore(w) ==
  \E d \in WalletDatas, p \in Passwords :
    EWCall(w, "encryptToSerializedKeystore", <<d, p>>,
           encryptToSerializedKeystore(walletFromEthers[w], d, p))

LoadFrom(w) ==
  \E d \in WalletDatas : EWCall(w, "loadFrom", d, loadFrom(walletFromEthers[w], d))

RecoverFromEncryptedKeystore(w) ==
  \E k \in Keystores, p \in Passwords :
    EWCall(w, "recoverFromEncryptedKeystore", <<k, p>>,
           recoverFromEncryptedKeystore(walletFromEthers[w], k, p))

RecoverFromSeed(w) ==
  \E s \in Mnemonics \cup {"not a mnemonic"} :
    EWCall(w, "recoverFromSeed", s, recoverFromSeed(walletFromEthers[w], s))

RecoverFromPrivateKey(w) ==
  \E k \in PrivateKeys \cup {"not a key"} :
    EWCall(w, "recoverFromPrivateKey", k, recoverFromPrivateKey(walletFromEthers[w], k))

SignMsgHash(w) ==
  \E h \in MsgHashes : EWCall(w, "signMsgHash", h, signMsgHash(walletFromEthers[w], h))

SignMessage(w) ==
  \E h \in MsgHashes :
    EWCall(w, "signMessage", arrayify(h), signMessage(walletFromEthers[w], arrayify(h)))

Confirm(w) ==
  \E tx \in RawTxs, sent \in SendResults :
    EWCall(w, "confirm", [rawTx |-> tx, sent |-> sent],
           confirm(walletFromEthers[w], tx, sent))

GetBalance(w) ==
  \E f \in FetchResults : EWCall(w, "getBalance", Undefined, getBalance(walletFromEthers[w], f))

ShowSeed(w) == EWCall(w, "showSeed", Undefined, showSeed(walletFromEthers[w]))

ExportPrivateKey(w) ==
  EWCall(w, "exportPrivateKey", Undefined, exportPrivateKey(walletFromEthers[w]))

Encrypt(w) ==
  \E msg \in Messages, k \in PubKeys :
    EWCall(w, "encrypt", <<msg, k>>, encrypt(walletFromEthers[w], msg, k))

Decrypt(w) ==
  \E encMsg \in Messages, k \in PubKeys :
    EWCall(w, "decrypt", <<encMsg, k>>, decrypt(walletFromEthers[w], encMsg, k))

\* Exchange.confirm on the TLNetwork's user; the wallet's slot is not touched.
ExchangeConfirm ==
  \E tx \in RawTxs, signed \in SignTxResults, relayed \in SendResults :
    EWCall("tl", "Exchange.confirm", [rawTx |-> tx, signed |-> signed, relayed |-> relayed],
           Out(walletFromEthers["tl"], exchangeConfirm(tx, signed, relayed).res,
               exchangeConfirm(tx, signed, relayed).calls))

GetTxInfos(w) ==
  \E a \in QueriedAddresses, p \in TxInfoProviders :
    EWCall(w, "getTxInfos", [address |-> a, provider |-> p],
           getTxInfos(walletFromEthers[w], a, p))

-----------------------------------------------------------------------------
(* Chained wallet calls: a caller makes a container, serializes it to a     *)
(* keystore, recovers it, hands what it holds to loadFrom.  `held` is what  *)
(* the caller holds, the container it started from and the password used.   *)

\* What loadFrom reads of a value that is a string (a serialized keystore):
\* every property of it is undefined.
StringAsWalletData ==
  [type |-> "undefined", version |-> 0, address |-> "undefined",
   privateKey |-> "undefined", mnemonic |-> NoMnemonic]

asWalletData(h) == IF h.kind = "container" THEN h.val ELSE StringAsWalletData

\* The caller keeps the container a make call returned.
Made(op, out) ==
  IF out.res.ok
    THEN [kind |-> "container", val |-> out.res.val, origin |-> op,
          container |-> out.res.val, password |-> "none"]
    ELSE held

RtCreate(w) ==
  \E m \in Mnemonics :
    LET out == create(walletFromEthers[w], m) IN
      EWCallH(w, "create", Undefined, out, Made("create", out))

RtRecoverFromSeed(w) ==
  \E s \in Mnemonics :
    LET out == recoverFromSeed(walletFromEthers[w], s) IN
      EWCallH(w, "recoverFromSeed", s, out, Made("recoverFromSeed", out))

RtRecoverFromPrivateKey(w) ==
  \E k \in PrivateKeys :
    LET out == recoverFromPrivateKey(walletFromEthers[w], k) IN
      EWCallH(w, "recoverFromPrivateKey", k, out, Made("recoverFromPrivateKey", out))

RtEncryptToSerializedKeystore(w) ==
  /\ held.kind = "container"
  /\ \E p \in Passwords :
       LET out == encryptToSerializedKeystore(walletFromEthers[w], held.val, p) IN
         EWCallH(w, "encryptToSerializedKeystore", <<held.val, p>>, out,
                 IF out.res.ok
                   THEN [held EXCEPT !.kind = "keystore", !.val = out.res.val,
                                     !.password = p]
                   ELSE held)

RtRecoverFromEncryptedKeystore(w) ==
  /\ held.kind = "keystore"
  /\ \E p \in Passwords :
       LET out == recoverFromEncryptedKeystore(walletFromEthers[w], held.val, p) IN
         EWCallH(w, "recoverFromEncryptedKeystore", <<held.val, p>>, out,
                 IF out.res.ok
                   THEN [held EXCEPT !.kind = "container", !.val = out.res.val]
                   ELSE held)

RtLoadFrom(w) ==
  /\ held.kind # "nothing"
  /\ EWCallH(w, "loadFrom", asWalletData(held),
             loadFrom(walletFromEthers[w], asWalletData(held)), held)

-----------------------------------------------------------------------------
(* Vault actions *)

\* A completed vault call; `failing` is the keystore step made to fail, if any.
LWCall(op, arg, failing, out) ==
  /\ lwAccount' = out.slot
  /\ lwLast' = [op |-> op, arg |-> arg, failing |-> failing, pre |-> lwAccount,
                res |-> out.res, calls |-> out.calls]
  /\ UNCHANGED <<walletFromEthers, last, loadedData, mo, pt, co, hq, held, seedSeen,
                 pendingSign>>

LWCreateAccount ==
  \E seed \in {"s1", "s2"}, keeps \in BOOLEAN, f \in LWSteps \cup {"none"} :
    LWCall("createAccount", Undefined, f, lwCreateAccount(lwAccount, seed, keeps, f))

LWLoadAccount ==
  \E k \in LWKeystores, f \in LWSteps \cup {"none"} :
    LWCall("loadAccount", k, f, lwLoadAccount(lwAccount, k, f))

LWSignMsgHash ==
  \E h \in MsgHashes, f \in LWSteps \cup {"none"} :
    LWCall("signMsgHash", h, f, lwSignMsgHash(lwAccount, h, f))

LWGetBalance ==
  \E f \in FetchResults :
    LWCall("getBalance", Undefined, "none", lwGetBalance(lwAccount, f))

LWGetTxInfos ==
  \E a \in QueriedAddresses, p \in TxInfoProviders :
    LWCall("getTxInfos", [address |-> a, provider |-> p], "none",
           lwGetTxInfos(lwAccount, a, p))

LWEncrypt ==
  \E p \in {"pub1", "pub2"}, f \in LWSteps \cup {"none"} :
    LWCall("encrypt", p, f, lwEncrypt(lwAccount, p, f))

-----------------------------------------------------------------------------
(* Numbers.  Amounts, timestamps and salts are naturals kept in three      *)
(* limbs, (top * 2^27 + hi) * 2^27 + lo, so that values around and above   *)
(* 2^53 stay exact in the model.                                           *)

Limb == 2^27

Nat3(top, hi, lo) == [top |-> top, hi |-> hi, lo |-> lo]
Small(n) == Nat3(0, 0, n)

\* n * 10
Mul10(n) ==
  LET a == n.lo * 10
      b == n.hi * 10 + (a \div Limb)
      c == n.top * 10 + (b \div Limb)
  IN Nat3(c, b % Limb, a % Limb)

\* n * 10^d
RECURSIVE MulPow10(_, _)
MulPow10(n, d) == IF d = 0 THEN n ELSE MulPow10(Mul10(n), d - 1)

\* Spacing of the doubles around a number with the high limbs (top, hi):
\* 1 below 2^53, doubling with every further bit.
RECURSIVE Quantum(_, _)
Quantum(top, hi) ==
  IF top = 0 /\ hi < 2^26 THEN 1
  ELSE 2 * Quantum(top \div 2, (hi \div 2) + (top % 2) * (Limb \div 2))

\* BigNumber.toNumber() / parseInt: the nearest double, ties to even.
toNumber(n) ==
  LET q == Quantum(n.top, n.hi)
      r == n.lo % q
      down == n.lo - r
      lo == IF 2 * r < q THEN down
            ELSE IF 2 * r > q THEN down + q
            ELSE IF (down \div q) % 2 = 0 THEN down ELSE down + q
  IN IF lo < Limb THEN Nat3(n.top, n.hi, lo)
     ELSE IF n.hi + 1 < Limb THEN Nat3(n.top, n.hi + 1, 0)
     ELSE Nat3(n.top + 1, 0, 0)

-----------------------------------------------------------------------------
(* Exchange.ts: pure helpers *)

ZERO_ADDRESS == "0x0000000000000000000000000000000000000000"

\* Default of the expirationUnixTimestampSec option: 2524604400.
DEFAULT_EXPIRATION == Nat3(0, 18, 108685296)

\* utils.formatAmount(value, decimals): the amount triple.
formatAmount(value, decimals) ==
  [value |-> value, decimals |-> decimals, raw |-> MulPow10(value, decimals)]

\* ethUtils.toChecksumAddress
toChecksumAddress(a) ==
  CASE a = "0xt1" -> "0xT1"
    [] a = "0xt2" -> "0xT2"
    [] OTHER -> a

\* Whether ethereumjs-abi can pack the value as an `address`.
IsAddress(a) ==
  a \in {ZERO_ADDRESS, "0xE1", "0xT1", "0xT2", "0xt1", "0xt2", "0xA1", "0xA2", "0xA3"}

\* getFees(order): fees are disabled, the fee fields are overwritten with zero.
getFees(order) ==
  [order EXCEPT !.feeRecipient = ZERO_ADDRESS,
                !.makerFee = formatAmount(Small(0), 2),
                !.takerFee = formatAmount(Small(0), 2)]

orderPartsSkippingZeroFees(order) ==
  LET IsZero(n) == n.top = 0 /\ n.hi = 0 /\ n.lo = 0 IN
  << [value |-> order.exchangeContractAddress, type |-> "address"],
     [value |-> order.maker, type |-> "address"],
     [value |-> order.taker, type |-> "address"],
     [value |-> order.makerTokenAddress, type |-> "address"],
     [value |-> order.takerTokenAddress, type |-> "address"],
     [value |-> order.feeRecipient, type |-> "address"],
     [value |-> toNumber(order.makerTokenAmount.raw), type |-> "uint256"],
     [value |-> toNumber(order.takerTokenAmount.raw), type |-> "uint256"] >>
  \o (IF IsZero(order.makerFee.raw) THEN <<>>
      ELSE << [value |-> toNumber(order.makerFee.raw), type |-> "uint256"] >>)
  \o (IF IsZero(order.takerFee.raw) THEN <<>>
      ELSE << [value |-> toNumber(order.takerFee.raw), type |-> "uint256"] >>)
  \o << [value |-> toNumber(order.expirationUnixTimestampSec), type |-> "uint256"],
        [value |-> toNumber(order.salt), type |-> "uint256"] >>

\* The twelve (value, type) parts getOrderHashHex packs, in order.
orderParts(order) ==
  << [value |-> order.exchangeContractAddress, type |-> "address"],
     [value |-> order.maker, type |-> "address"],
     [value |-> order.taker, type |-> "address"],
     [value |-> order.makerTokenAddress, type |-> "address"],
     [value |-> order.takerTokenAddress, type |-> "address"],
     [value |-> order.feeRecipient, type |-> "address"],
     [value |-> toNumber(order.makerTokenAmount.raw), type |-> "uint256"],
     [value |-> toNumber(order.takerTokenAmount.raw), type |-> "uint256"],
     [value |-> toNumber(order.makerFee.raw), type |-> "uint256"],
     [value |-> toNumber(order.takerFee.raw), type |-> "uint256"],
     [value |-> toNumber(order.expirationUnixTimestampSec), type |-> "uint256"],
     [value |-> toNumber(order.salt), type |-> "uint256"] >>

\* ethABI.soliditySHA3 followed by bufferToHex: keccak-256 of the tightly
\* packed parts, a 32-byte hex digest; keccak is taken collision-free, so the
\* digest is identified by what was packed.
soliditySHA3(parts) == [hex |-> TRUE, bytes |-> 32, body |-> parts]

IsSafeNumberUnchecked(n) == n.top >= 0

\* Whether ethereumjs-abi can pack the number as a `uint256`: it builds a
\* big number from it, and bn.js asserts that a number is below 2^53.
IsSafeNumber(n) == n.top = 0 /\ n.hi < 2^26

\* getOrderHashHex(order); packing throws on a value that is no address and
\* on a number that is not below 2^53.
getOrderHashHex(order) ==
  LET parts == orderParts(order) IN
    IF \E i \in 1..Len(parts) : parts[i].type = "address" /\ ~IsAddress(parts[i].value)
      THEN Err("Cannot convert string to buffer")
    ELSE IF \E i \in 1..Len(parts) :
              parts[i].type = "uint256" /\ ~IsSafeNumber(parts[i].value)
      THEN Err("Assertion failed")
      ELSE Ok(soliditySHA3(parts))

\* getOrderAddresses(order)
getOrderAddresses(order) ==
  <<order.maker, ZERO_ADDRESS, order.makerTokenAddress, order.takerTokenAddress,
    order.feeRecipient>>

\* getOrderValues(order): fees are sent as 0.
getOrderValues(order) ==
  <<toNumber(order.makerTokenAmount.raw), toNumber(order.takerTokenAmount.raw),
    Small(0), Small(0),
    toNumber(order.expirationUnixTimestampSec), toNumber(order.salt)>>

\* The user facade of the Exchange: address and signMsgHash of the wallet the
\* TLNetwork constructed (instance "tl").
userAddress(slot) == address(slot).res

\* `signing` is how the signer's own signing step ends: a signer can reject
\* with an account loaded (the vault's keyFromPassword or signMsgHash failing).
SigningOutcomes == {"signs", "fails"}
ERR_SIGNING == "signing failed"

userSignMsgHash(slot, msgHash, signing) ==
  IF signMsgHash(slot, msgHash).res.ok /\ signing = "fails" THEN Err(ERR_SIGNING)
  ELSE signMsgHash(slot, msgHash).res

-----------------------------------------------------------------------------
(* Exchange.makeOrder: an async pipeline.  `mo` is the pending call; each   *)
(* action below runs the code between two awaits.                           *)

\* Object spread with one key set: {...r, k: v}.
With(r, k, v) == [f \in DOMAIN r \cup {k} |-> IF f = k THEN v ELSE r[f]]

\* Number.prototype.toString / String.prototype.toString of a raw amount.
toString(n) == [digits |-> n]

MoIdle ==
  [pc |-> "idle", args |-> Undefined, status |-> "none", steps |-> <<>>,
   order |-> Undefined, orderWithFees |-> Undefined, hashed |-> Undefined,
   orderHash |-> Undefined, signArg |-> Undefined, sig |-> Undefined,
   signedOrder |-> Undefined, payload |-> Undefined, posted |-> Undefined,
   result |-> Undefined, makerSlot |-> Undefined, signerSlot |-> Undefined]

MakeOrderArgs ==
  [exchangeContractAddress : {"0xE1", "not an address"},
   makerTokenAddress : {"0xt1"},
   takerTokenAddress : {"0xT2"},
   makerTokenValue : {Small(100), Nat3(0, 2^26, 1)},
   takerTokenValue : {Small(50)},
   expirationUnixTimestampSec : {DEFAULT_EXPIRATION}]

\* What Promise.all([getDecimals(maker token), getDecimals(taker token)]) settles to.
DecimalsResults == {Ok(<<2, 4>>), Ok(<<0, 0>>), Err(ERR_TRANSPORT)}

\* Math.floor(Math.random() * 1000000000)
Salts == {Small(1), Small(999999999)}

\* What the POST to exchange/order settles to.
PostResults == {Ok("created"), Err(ERR_TRANSPORT)}

\* The catch block / a rejected link of the promise chain.
moReject(m, e) == [m EXCEPT !.pc = "rejected", !.result = Err(e)]

\* makeOrder is called: both decimals lookups are started.
moCall(args) ==
  [MoIdle EXCEPT !.pc = "awaitDecimals", !.args = args, !.steps = <<"getDecimals">>]

moDecimalsNamingTaker(m, slot, dec, salt) ==
  LET maker == userAddress(slot) IN
    IF ~dec.ok THEN moReject(m, dec.err)
    ELSE IF ~maker.ok THEN moReject(m, maker.err)
    ELSE [m EXCEPT
      !.pc = "awaitFees",
      !.status = "Draft",
      !.steps = Append(@, "getFees"),
      !.order =
        [exchangeContractAddress |-> m.args.exchangeContractAddress,
         expirationUnixTimestampSec |-> m.args.expirationUnixTimestampSec,
         feeRecipient |-> ZERO_ADDRESS,
         maker |-> ZERO_ADDRESS,
         makerFee |-> formatAmount(Small(0), dec.val[1]),
         makerTokenAddress |-> toChecksumAddress(m.args.makerTokenAddress),
         makerTokenAmount |-> formatAmount(m.args.makerTokenValue, dec.val[1]),
         salt |-> salt,
         taker |-> maker.val,
         takerFee |-> formatAmount(Small(0), dec.val[1]),
         takerTokenAddress |-> toChecksumAddress(m.args.takerTokenAddress),
         takerTokenAmount |-> formatAmount(m.args.takerTokenValue, dec.val[2])]]

\* Decimals are known: the order is assembled and getFees is called.
moDecimals(m, slot, dec, salt) ==
  LET maker == userAddress(slot) IN
    IF ~dec.ok THEN moReject(m, dec.err)
    ELSE IF ~maker.ok THEN moReject(m, maker.err)
    ELSE [m EXCEPT
      !.pc = "awaitFees",
      !.status = "Draft",
      !.steps = Append(@, "getFees"),
      !.order =
        [exchangeContractAddress |-> m.args.exchangeContractAddress,
         expirationUnixTimestampSec |-> m.args.expirationUnixTimestampSec,
         feeRecipient |-> ZERO_ADDRESS,
         maker |-> maker.val,
         makerFee |-> formatAmount(Small(0), dec.val[1]),
         makerTokenAddress |-> toChecksumAddress(m.args.makerTokenAddress),
         makerTokenAmount |-> formatAmount(m.args.makerTokenValue, dec.val[1]),
         salt |-> salt,
         taker |-> ZERO_ADDRESS,
         takerFee |-> formatAmount(Small(0), dec.val[1]),
         takerTokenAddress |-> toChecksumAddress(m.args.takerTokenAddress),
         takerTokenAmount |-> formatAmount(m.args.takerTokenValue, dec.val[2])]]

moFeesSigningDraft(m, slot, signing) ==
  LET orderWithFees == getFees(m.order)
      h == getOrderHashHex(m.order) IN
    IF ~h.ok THEN
      moReject([m EXCEPT !.status = "FeesApplied", !.orderWithFees = orderWithFees,
                         !.hashed = m.order,
                         !.steps = Append(@, "getOrderHashHex")], h.err)
    ELSE [m EXCEPT
      !.pc = "awaitSign", !.status = "Hashed",
      !.orderWithFees = orderWithFees, !.hashed = m.order,
      !.orderHash = h.val, !.signArg = h.val,
      !.sig = userSignMsgHash(slot, h.val, signing),
      !.steps = @ \o <<"getOrderHashHex", "signMsgHash">>]

\* Fees are applied: the order is hashed and user.signMsgHash is called with
\* the digest (the wallet reads its slot at this call).
moFees(m, slot, signing) ==
  LET orderWithFees == getFees(m.order)
      h == getOrderHashHex(orderWithFees) IN
    IF ~h.ok THEN
      moReject([m EXCEPT !.status = "FeesApplied", !.orderWithFees = orderWithFees,
                         !.hashed = orderWithFees,
                         !.steps = Append(@, "getOrderHashHex")], h.err)
    ELSE [m EXCEPT
      !.pc = "awaitSign", !.status = "Hashed",
      !.orderWithFees = orderWithFees, !.hashed = orderWithFees,
      !.orderHash = h.val, !.signArg = h.val,
      !.sig = userSignMsgHash(slot, h.val, signing),
      !.steps = @ \o <<"getOrderHashHex", "signMsgHash">>]

moSignedPostingTriples(m) ==
  IF ~m.sig.ok THEN moReject(m, m.sig.err)
  ELSE LET signedOrder == With(m.orderWithFees, "ecSignature", m.sig.val.ecSignature) IN
    [m EXCEPT
      !.pc = "awaitPost", !.status = "Signed",
      !.signedOrder = signedOrder,
      !.payload = signedOrder,
      !.steps = Append(@, "postRequest")]

\* Signing settled: the signature is attached and the order is POSTed with
\* its amounts as raw strings.
moSigned(m) ==
  IF ~m.sig.ok THEN moReject(m, m.sig.err)
  ELSE LET signedOrder == With(m.orderWithFees, "ecSignature", m.sig.val.ecSignature) IN
    [m EXCEPT
      !.pc = "awaitPost", !.status = "Signed",
      !.signedOrder = signedOrder,
      !.payload =
        [signedOrder EXCEPT
          !.makerFee = toString(m.orderWithFees.makerFee.raw),
          !.takerFee = toString(m.orderWithFees.takerFee.raw),
          !.makerTokenAmount = toString(m.orderWithFees.makerTokenAmount.raw),
          !.takerTokenAmount = toString(m.orderWithFees.takerTokenAmount.raw)],
      !.steps = Append(@, "postRequest")]

moPostedRehashing(m, posted) ==
  IF ~posted.ok THEN moReject(m, posted.err)
  ELSE [m EXCEPT !.pc = "resolved", !.status = "Submitted",
                 !.result = Ok(With(m.signedOrder, "hash",
                   getOrderHashHex([m.signedOrder EXCEPT
                     !.makerTokenAmount.raw = m.signedOrder.makerTokenAmount.value]).val))]

moPostedRetrying(m, posted) ==
  IF ~posted.ok THEN [m EXCEPT !.steps = Append(@, "postRequest")]
  ELSE [m EXCEPT !.pc = "resolved", !.status = "Submitted",
                 !.result = Ok(With(m.signedOrder, "hash", m.orderHash))]

\* The POST settled: the signed order is returned with the hash computed
\* before signing, or the failure is passed on.
moPosted(m, posted) ==
  IF ~posted.ok THEN moReject(m, posted.err)
  ELSE [m EXCEPT !.pc = "resolved", !.status = "Submitted",
                 !.result = Ok(With(m.signedOrder, "hash", m.orderHash))]

MoStep(m) ==
  /\ mo' = m
  /\ UNCHANGED <<walletFromEthers, last, loadedData, lwAccount, lwLast, pt, co, hq, held,
                 seedSeen, pendingSign>>

MakeOrder == mo.pc = "idle" /\ \E a \in MakeOrderArgs : MoStep(moCall(a))

\* `makerSlot` keeps the slot user.address was read from.
MakeOrderDecimals ==
  /\ mo.pc = "awaitDecimals"
  /\ \E d \in DecimalsResults, s \in Salts :
       MoStep([moDecimals(mo, walletFromEthers["tl"], d, s) EXCEPT
                 !.makerSlot = walletFromEthers["tl"]])

\* `signerSlot` keeps the slot user.signMsgHash was called on.
MakeOrderFees ==
  /\ mo.pc = "awaitFees"
  /\ \E sg \in SigningOutcomes :
       MoStep([moFees(mo, walletFromEthers["tl"], sg) EXCEPT
                 !.signerSlot = walletFromEthers["tl"]])

MakeOrderSigned == mo.pc = "awaitSign" /\ MoStep(moSigned(mo))

\* `posted` keeps what the transport answered.
MakeOrderPosted ==
  /\ mo.pc = "awaitPost"
  /\ \E p \in PostResults : MoStep([moPosted(mo, p) EXCEPT !.posted = p])

\* The caller has the settled promise; the next call can be made.
MakeOrderSettled == mo.pc \in {"resolved", "rejected"} /\ MoStep(MoIdle)

-----------------------------------------------------------------------------
(* Exchange.prepTakeOrder *)

ERR_NO_PATH == "Could not find a path with enough capacity"

\* Utils.calcRaw(value, decimals) of the Exchange's utils: value * 10^decimals.
Utils_calcRaw(value, decimals) == MulPow10(value, decimals)

\* A signed order as a maker's client publishes it: hashed after getFees and
\* signed with the maker's key.  `taker` is the zero address for an order any
\* taker may fill (what makeOrder writes), or the one taker the maker names.
SignedOrderOf(makerKey, salt, taker) ==
  LET order == getFees(
        [exchangeContractAddress |-> "0xE1",
         expirationUnixTimestampSec |-> DEFAULT_EXPIRATION,
         feeRecipient |-> ZERO_ADDRESS,
         maker |-> AddressOf(makerKey),
         makerFee |-> formatAmount(Small(0), 2),
         makerTokenAddress |-> "0xT1",
         makerTokenAmount |-> formatAmount(Small(100), 2),
         salt |-> salt,
         taker |-> taker,
         takerFee |-> formatAmount(Small(0), 2),
         takerTokenAddress |-> "0xT2",
         takerTokenAmount |-> formatAmount(Small(50), 4)])
      hash == getOrderHashHex(order).val
      sig == personalSign(WalletFromEthers(makerKey, NoMnemonic), arrayify(hash))
  IN With(With(order, "ecSignature", sig), "hash", hash)

SignedOrders ==
  {SignedOrderOf("k2", Small(1), ZERO_ADDRESS), SignedOrderOf("k3", Small(999999999), "0xA1")}

FillValues == {Small(10), Small(50)}

\* The route substituted for a token that is no trustline network.
NoNetworkRoute == [path |-> <<>>, maxFees |-> 0, estimatedGas |-> 40000, isNoNetwork |-> TRUE]

\* What currencyNetwork.isNetwork and payment.getPath settle to.
IsNetworkResults == {Ok(TRUE), Ok(FALSE), Err(ERR_TRANSPORT)}
\* Longest path the path-finding collaborator returns in the model.
MaxHops == 2

\* A path of n addresses; payment.getPath answers without an isNoNetwork key.
PathOfLength(n) == [i \in 1..n |-> IF i % 2 = 1 THEN "0xA2" ELSE "0xA3"]

GetPathResults ==
  {Ok([path |-> PathOfLength(n), maxFees |-> 1, estimatedGas |-> 60000,
       isNoNetwork |-> FALSE]) : n \in 0..MaxHops}
    \cup {Err(ERR_TRANSPORT)}

\* getPartialAmount(numerator, denominator, target): numerator * target / denominator,
\* kept exact as a fraction.
getPartialAmount(numerator, denominator, target) ==
  [num |-> numerator.lo * target.lo, den |-> denominator.lo]

getPathObjAlwaysAsking(isNet, found) ==
  IF ~isNet.ok THEN [res |-> isNet, calls |-> <<"currencyNetwork.isNetwork">>, isNet |-> isNet]
  ELSE [res |-> found, calls |-> <<"currencyNetwork.isNetwork", "payment.getPath">>,
        isNet |-> isNet]

\* getPathObj: the route of one leg and the collaborator calls made for it.
\* `isNet` and `found` are what isNetwork and getPath settle to.
getPathObj(isNet, found) ==
  IF ~isNet.ok THEN [res |-> isNet, calls |-> <<"currencyNetwork.isNetwork">>, isNet |-> isNet]
  ELSE IF isNet.val
    THEN [res |-> found, calls |-> <<"currencyNetwork.isNetwork", "payment.getPath">>,
          isNet |-> isNet]
    ELSE [res |-> Ok(NoNetworkRoute), calls |-> <<"currencyNetwork.isNetwork">>,
          isNet |-> isNet]

\* path.length === 1 ? path : path.slice(1)
pathArg(path) == IF Len(path) = 1 THEN path ELSE IF path = <<>> THEN <<>> ELSE Tail(path)

PtIdle ==
  [pc |-> "idle", args |-> Undefined, steps |-> <<>>, decimals |-> Undefined,
   orderWithFees |-> Undefined, legs |-> Undefined, makerPathObj |-> Undefined,
   takerPathObj |-> Undefined, prepArgs |-> Undefined, result |-> Undefined,
   routes |-> Undefined]

PrepTakeOrderArgs == [signedOrder : SignedOrders, fillTakerTokenValue : FillValues]

\* What transaction.prepFuncTx settles to.
PrepResults == {Ok([rawTx |-> "rawTx", ethFees |-> "fees"]), Err(ERR_TRANSPORT)}

ptReject(p, e) == [p EXCEPT !.pc = "rejected", !.result = Err(e)]

\* prepTakeOrder is called: decimals lookups and getFees are started.
ptCall(args) ==
  [PtIdle EXCEPT !.pc = "awaitDecimalsFees", !.args = args,
                 !.steps = <<"getDecimals", "getFees">>]

\* Decimals and fees are known: a route is requested for each leg.
ptDecimals(p, slot, dec) ==
  LET user == userAddress(slot)
      so == p.args.signedOrder IN
    IF ~dec.ok THEN ptReject(p, dec.err)
    ELSE IF ~user.ok THEN ptReject(p, user.err)
    ELSE [p EXCEPT
      !.pc = "awaitPaths",
      !.decimals = dec.val,
      !.orderWithFees = getFees(so),
      !.steps = @ \o <<"getPathObj", "getPathObj">>,
      !.legs =
        <<[token |-> so.makerTokenAddress, from |-> so.maker, to |-> user.val,
           value |-> getPartialAmount(p.args.fillTakerTokenValue,
                                      so.takerTokenAmount.value, so.makerTokenAmount.value),
           decimals |-> dec.val[1]],
          [token |-> so.takerTokenAddress, from |-> user.val, to |-> so.maker,
           value |-> [num |-> p.args.fillTakerTokenValue.lo, den |-> 1],
           decimals |-> dec.val[2]]>>]

\* The contract call prepTakeOrder prepares.
ptPrepare(p, slot, makerPathObj, takerPathObj) ==
  [p EXCEPT
    !.pc = "awaitPrep",
    !.makerPathObj = makerPathObj, !.takerPathObj = takerPathObj,
    !.steps = Append(@, "prepFuncTx"),
    !.prepArgs =
      [from |-> p.legs[2].from,
       to |-> p.args.signedOrder.exchangeContractAddress,
       contract |-> "Exchange", func |-> "fillOrderTrustlines",
       orderAddresses |-> getOrderAddresses(p.orderWithFees),
       orderValues |-> getOrderValues(p.orderWithFees),
       fillRaw |-> Utils_calcRaw(p.args.fillTakerTokenValue, p.decimals[2]),
       makerPath |-> pathArg(makerPathObj.path),
       takerPath |-> pathArg(takerPathObj.path),
       ecSignature |-> p.args.signedOrder.ecSignature,
       gasLimit |-> ((takerPathObj.estimatedGas + makerPathObj.estimatedGas) * 3) \div 2]]

noPathMakerOnly(makerPathObj, takerPathObj) ==
  Len(makerPathObj.path) = 0 /\ ~makerPathObj.isNoNetwork

\* The route check of prepTakeOrder.
noPath(makerPathObj, takerPathObj) ==
  \/ (Len(makerPathObj.path) = 0 /\ ~makerPathObj.isNoNetwork)
  \/ (Len(takerPathObj.path) = 0 /\ ~takerPathObj.isNoNetwork)

\* Both routes settled: the route check, then transaction.prepFuncTx.
ptPaths(p, slot, makerLeg, takerLeg) ==
  LET q == [p EXCEPT !.steps = @ \o makerLeg.calls \o takerLeg.calls,
                     !.routes = <<makerLeg, takerLeg>>] IN
    IF ~makerLeg.res.ok THEN ptReject(q, makerLeg.res.err)
    ELSE IF ~takerLeg.res.ok THEN ptReject(q, takerLeg.res.err)
    ELSE IF noPath(makerLeg.res.val, takerLeg.res.val)
      THEN ptReject([q EXCEPT !.makerPathObj = makerLeg.res.val,
                              !.takerPathObj = takerLeg.res.val], ERR_NO_PATH)
    ELSE ptPrepare(q, slot, makerLeg.res.val, takerLeg.res.val)

\* prepFuncTx settled.
ptPrepared(p, prep) ==
  IF ~prep.ok THEN ptReject(p, prep.err)
  ELSE [p EXCEPT !.pc = "resolved",
                 !.result = Ok([rawTx |-> prep.val.rawTx, ethFees |-> prep.val.ethFees,
                                makerMaxFees |-> p.makerPathObj.maxFees,
                                makerPath |-> p.makerPathObj.path,
                                takerMaxFees |-> p.takerPathObj.maxFees,
                                takerPath |-> p.takerPathObj.path])]

PtStep(p) ==
  /\ pt' = p
  /\ UNCHANGED <<walletFromEthers, last, loadedData, lwAccount, lwLast, mo, co, hq, held,
                 seedSeen, pendingSign>>

PrepTakeOrder == pt.pc = "idle" /\ \E a \in PrepTakeOrderArgs : PtStep(ptCall(a))

PrepTakeOrderDecimals ==
  /\ pt.pc = "awaitDecimalsFees"
  /\ \E d \in DecimalsResults : PtStep(ptDecimals(pt, walletFromEthers["tl"], d))

PrepTakeOrderPaths ==
  /\ pt.pc = "awaitPaths"
  /\ \E nm \in IsNetworkResults, fm \in GetPathResults,
        nt \in IsNetworkResults, ft \in GetPathResults :
       PtStep(ptPaths(pt, walletFromEthers["tl"], getPathObj(nm, fm), getPathObj(nt, ft)))

PrepTakeOrderPrepared ==
  pt.pc = "awaitPrep" /\ \E r \in PrepResults : PtStep(ptPrepared(pt, r))

PrepTakeOrderSettled == pt.pc \in {"resolved", "rejected"} /\ PtStep(PtIdle)

-----------------------------------------------------------------------------
(* Exchange.getOrderHashHex as a function: `hq` is its last evaluation, on  *)
(* an order and on a second object with the same schema fields.             *)

HqIdle == [called |-> FALSE, order |-> Undefined, variant |-> Undefined,
           res |-> Undefined, variantRes |-> Undefined]

\* 2^53 and numbers around and above it, and small ones.
HashRaws == {Small(0), Small(100), Nat3(0, 2^26, 0), Nat3(0, 2^26, 1), Nat3(0, 2^26, 3)}

\* An Amount whose raw is given; the hasher's callers pass any display value.
AmountOfRaw(raw, value, decimals) == [raw |-> raw, value |-> value, decimals |-> decimals]

HashOrders ==
  {[exchangeContractAddress |-> e,
    expirationUnixTimestampSec |-> DEFAULT_EXPIRATION,
    feeRecipient |-> ZERO_ADDRESS,
    maker |-> a,
    makerFee |-> AmountOfRaw(f, f, 0),
    makerTokenAddress |-> "0xT1",
    makerTokenAmount |-> AmountOfRaw(r, r, 0),
    salt |-> salt,
    taker |-> ZERO_ADDRESS,
    takerFee |-> AmountOfRaw(Small(0), Small(0), 0),
    takerTokenAddress |-> "0xT2",
    takerTokenAmount |-> AmountOfRaw(Small(50), Small(50), 0)] :
     e \in {"0xE1", "not an address"}, a \in {"0xA1", "0xA2"}, f \in {Small(0), Small(5)},
     r \in HashRaws, salt \in Salts}

\* What a caller can vary on an order without touching a hashed field.
Decorations == {"same", "signed", "redisplayed"}

Redisplayed(amount) == AmountOfRaw(amount.raw, Small(7), 3)

Decorate(order, d) ==
  LET shown == [order EXCEPT !.makerTokenAmount = Redisplayed(@),
                             !.takerTokenAmount = Redisplayed(@),
                             !.makerFee = Redisplayed(@),
                             !.takerFee = Redisplayed(@)] IN
    CASE d = "same" -> order
      [] d = "redisplayed" -> shown
      [] d = "signed" ->
           With(With(shown, "ecSignature", [v |-> 27, r |-> "0xr", s |-> "0xs"]),
                "status", "Signed")

GetOrderHashHex ==
  \E o \in HashOrders, d \in Decorations :
    /\ hq' = [called |-> TRUE, order |-> o, variant |-> Decorate(o, d),
              res |-> getOrderHashHex(o), variantRes |-> getOrderHashHex(Decorate(o, d))]
    /\ UNCHANGED <<walletFromEthers, last, loadedData, lwAccount, lwLast, mo, pt, co, held,
                   seedSeen, pendingSign>>

-----------------------------------------------------------------------------
(* Exchange.cancelOrder: an async pipeline with two awaits.  `co` is the    *)
(* pending call.                                                            *)

CoIdle ==
  [pc |-> "idle", args |-> Undefined, steps |-> <<>>, takerDecimals |-> Undefined,
   orderWithFees |-> Undefined, prepArgs |-> Undefined, result |-> Undefined]

CancelOrderArgs == [signedOrder : SignedOrders, cancelTakerTokenValue : FillValues]

\* What currencyNetwork.getDecimals(takerTokenAddress, takerTokenDecimals) settles to.
TakerDecimalsResults == {Ok(4), Ok(0), Err(ERR_TRANSPORT)}

coReject(c, e) == [c EXCEPT !.pc = "rejected", !.result = Err(e)]

\* cancelOrder is called: the taker token's decimals lookup and getFees are started.
coCall(args) ==
  [CoIdle EXCEPT !.pc = "awaitDecimalsFees", !.args = args,
                 !.steps = <<"getDecimals", "getFees">>]

coDecimalsResolvingRoutes(c, slot, dec) ==
  LET user == userAddress(slot) IN
    IF ~dec.ok THEN coReject(c, dec.err)
    ELSE IF ~user.ok THEN coReject(c, user.err)
    ELSE [c EXCEPT !.pc = "awaitPrep", !.takerDecimals = dec.val,
                   !.orderWithFees = getFees(c.args.signedOrder),
                   !.steps = @ \o <<"getPathObj", "getPathObj", "prepFuncTx">>,
                   !.prepArgs = [from |-> user.val, func |-> "fillOrderTrustlines"]]

\* Decimals and fees are known: the contract call is prepared at once, from
\* the order's addresses and values, the raw cancel amount and the signature.
coDecimals(c, slot, dec) ==
  LET user == userAddress(slot)
      so == c.args.signedOrder
      orderWithFees == getFees(so) IN
    IF ~dec.ok THEN coReject(c, dec.err)
    ELSE IF ~user.ok THEN coReject(c, user.err)
    ELSE [c EXCEPT
      !.pc = "awaitPrep",
      !.takerDecimals = dec.val,
      !.orderWithFees = orderWithFees,
      !.steps = Append(@, "prepFuncTx"),
      !.prepArgs =
        [from |-> user.val,
         to |-> so.exchangeContractAddress,
         contract |-> "Exchange", func |-> "fillOrderTrustlines",
         args |-> <<getOrderAddresses(orderWithFees), getOrderValues(orderWithFees),
                    Utils_calcRaw(c.args.cancelTakerTokenValue, dec.val),
                    [part |-> "v", of |-> so.ecSignature],
                    [part |-> "r", of |-> so.ecSignature],
                    [part |-> "s", of |-> so.ecSignature]>>]]

\* prepFuncTx settled.
coPrepared(c, prep) ==
  IF ~prep.ok THEN coReject(c, prep.err)
  ELSE [c EXCEPT !.pc = "resolved",
                 !.result = Ok([rawTx |-> prep.val.rawTx, ethFees |-> prep.val.ethFees])]

CoStep(c) ==
  /\ co' = c
  /\ UNCHANGED <<walletFromEthers, last, loadedData, lwAccount, lwLast, mo, pt, hq, held,
                 seedSeen, pendingSign>>

CancelOrder == co.pc = "idle" /\ \E a \in CancelOrderArgs : CoStep(coCall(a))

CancelOrderDecimals ==
  /\ co.pc = "awaitDecimalsFees"
  /\ \E d \in TakerDecimalsResults : CoStep(coDecimals(co, walletFromEthers["tl"], d))

CancelOrderPrepared ==
  co.pc = "awaitPrep" /\ \E r \in PrepResults : CoStep(coPrepared(co, r))

CancelOrderSettled == co.pc \in {"resolved", "rejected"} /\ CoStep(CoIdle)

-----------------------------------------------------------------------------
(* EthersWallet signing calls as pending promises: signMsgHash, signMessage *)
(* and confirm each evaluate this.walletFromEthers before their first await *)
(* and hold that account object until they settle.                          *)

PsIdle ==
  [pc |-> "idle", op |-> "none", arg |-> Undefined, wallet |-> Undefined,
   slotAtCall |-> Undefined, message |-> Undefined, signedTx |-> Undefined,
   res |-> Undefined]

SigningCalls ==
  [op : {"signMsgHash"}, arg : MsgHashes]
    \cup [op : {"signMessage"}, arg : {arrayify(h) : h \in MsgHashes}]
    \cup [op : {"confirm"}, arg : RawTxs]

psSettle(p, res) == [p EXCEPT !.pc = "settled", !.res = res]

\* The synchronous part of the call: the checks, then the account object's
\* signMessage or sign is invoked and its promise awaited.
psCall(c, slot) ==
  LET p == [PsIdle EXCEPT !.op = c.op, !.arg = c.arg] IN
    IF slot = Undefined THEN psSettle(p, Err(EW_NO_WALLET))
    ELSE IF c.op = "signMsgHash" /\ ~isHexString(c.arg) THEN psSettle(p, Err(EW_NOT_HEX))
    ELSE [p EXCEPT !.pc = "awaitSign", !.wallet = slot,
                   !.message = IF c.op = "signMsgHash" THEN arrayify(c.arg) ELSE c.arg]

psSignedReadingSlot(p) ==
  IF p.op = "confirm" THEN
    IF ~p.arg.wellFormed THEN psSettle(p, Err(ERR_INVALID_TX))
    ELSE [p EXCEPT !.pc = "awaitSend",
                   !.signedTx = [signer |-> walletFromEthers["tl"].privateKey, tx |-> p.arg]]
  ELSE LET flat == personalSign(walletFromEthers["tl"], p.message) IN
    psSettle(p, Ok([concatSig |-> flat, ecSignature |-> flat]))

\* The account object's promise settled: the signature is split and returned,
\* or the signed transaction is handed to provider.sendSignedTransaction.
psSigned(p) ==
  IF p.op = "confirm" THEN
    IF ~p.arg.wellFormed THEN psSettle(p, Err(ERR_INVALID_TX))
    ELSE [p EXCEPT !.pc = "awaitSend",
                   !.signedTx = [signer |-> p.wallet.privateKey, tx |-> p.arg]]
  ELSE LET flat == personalSign(p.wallet, p.message) IN
    psSettle(p, Ok([concatSig |-> flat, ecSignature |-> flat]))

\* confirm: the provider answered.
psSent(p, sent) == psSettle(p, sent)

PsStep(p) ==
  /\ pendingSign' = p
  /\ UNCHANGED <<walletFromEthers, last, loadedData, lwAccount, lwLast, mo, pt, co, hq,
                 held, seedSeen>>

\* `slotAtCall` keeps the slot as it was when the call was made.
SignCall ==
  /\ pendingSign.pc = "idle"
  /\ \E c \in SigningCalls :
       PsStep([psCall(c, walletFromEthers["tl"]) EXCEPT
                 !.slotAtCall = walletFromEthers["tl"]])

SignSigned == pendingSign.pc = "awaitSign" /\ PsStep(psSigned(pendingSign))

SignSent ==
  /\ pendingSign.pc = "awaitSend"
  /\ \E sent \in SendResults : PsStep(psSent(pendingSign, sent))

\* The caller has the settled promise; the next call can be made.
SignSettled == pendingSign.pc = "settled" /\ PsStep(PsIdle)

-----------------------------------------------------------------------------
(* Specifications *)

Init ==
  /\ walletFromEthers = [w \in Wallets |-> Undefined]
  /\ last = [w |-> "tl", op |-> "none", arg |-> Undefined, pre |-> Undefined,
             res |-> Ok(Undefined), calls |-> <<>>]
  /\ loadedData = [w \in Wallets |-> Undefined]
  /\ lwAccount = Undefined
  /\ lwLast = [op |-> "none", arg |-> Undefined, failing |-> "none", pre |-> Undefined,
               res |-> Ok(Undefined), calls |-> <<>>]
  /\ mo = MoIdle
  /\ pt = PtIdle
  /\ co = CoIdle
  /\ hq = HqIdle
  /\ held = HeldNothing
  /\ seedSeen = [s \in Mnemonics |-> "none"]
  /\ pendingSign = PsIdle

\* Every public method of every EthersWallet instance.
Next ==
  \/ \E w \in Wallets :
       \/ Address(w) \/ GetAddress(w) \/ GetWalletData(w) \/ Create(w)
       \/ DeployIdentity(w) \/ IsIdentityDeployed(w) \/ EncryptToSerializedKeystore(w)
       \/ LoadFrom(w) \/ RecoverFromEncryptedKeystore(w) \/ RecoverFromSeed(w)
       \/ RecoverFromPrivateKey(w) \/ SignMsgHash(w) \/ SignMessage(w) \/ Confirm(w)
       \/ GetBalance(w) \/ ShowSeed(w) \/ ExportPrivateKey(w) \/ Encrypt(w)
       \/ Decrypt(w) \/ GetTxInfos(w)
  \/ ExchangeConfirm

Spec == Init /\ [][Next]_vars

\* Both backends side by side: the operations that need a loaded account on
\* the TLNetwork's EthersWallet, and the vault backend.
NextBackends ==
  \/ Address("tl") \/ GetAddress("tl") \/ GetWalletData("tl") \/ DeployIdentity("tl")
  \/ LoadFrom("tl") \/ SignMsgHash("tl") \/ SignMessage("tl") \/ Confirm("tl")
  \/ GetBalance("tl") \/ ShowSeed("tl") \/ ExportPrivateKey("tl") \/ GetTxInfos("tl")
  \/ LWGetTxInfos \/ LWCreateAccount \/ LWLoadAccount \/ LWSignMsgHash \/ LWGetBalance \/ LWEncrypt

SpecBackends == Init /\ [][NextBackends]_vars

\* makeOrder, with loadFrom calls on the user's wallet between its awaits.
NextMakeOrder ==
  \/ MakeOrder \/ MakeOrderDecimals \/ MakeOrderFees \/ MakeOrderSigned
  \/ MakeOrderPosted \/ MakeOrderSettled
  \/ LoadFrom("tl")

SpecMakeOrder == Init /\ [][NextMakeOrder]_vars

\* Signing calls of the TLNetwork's wallet, with loadFrom calls in between.
NextSigning ==
  \/ SignCall \/ SignSigned \/ SignSent \/ SignSettled
  \/ LoadFrom("tl")

SpecSigning == Init /\ [][NextSigning]_vars

\* prepTakeOrder, with loadFrom calls on the user's wallet between its awaits.
NextTakeOrder ==
  \/ PrepTakeOrder \/ PrepTakeOrderDecimals \/ PrepTakeOrderPaths
  \/ PrepTakeOrderPrepared \/ PrepTakeOrderSettled
  \/ LoadFrom("tl")

SpecTakeOrder == Init /\ [][NextTakeOrder]_vars

\* cancelOrder, with loadFrom calls on the user's wallet between its awaits.
NextCancelOrder ==
  \/ CancelOrder \/ CancelOrderDecimals \/ CancelOrderPrepared \/ CancelOrderSettled
  \/ LoadFrom("tl")

SpecCancelOrder == Init /\ [][NextCancelOrder]_vars

\* A caller chaining make, serialize, recover and load calls on the wallets.
NextRoundTrip ==
  \E w \in Wallets :
    \/ RtCreate(w) \/ RtRecoverFromSeed(w) \/ RtRecoverFromPrivateKey(w)
    \/ RtEncryptToSerializedKeystore(w) \/ RtRecoverFromEncryptedKeystore(w)
    \/ RtLoadFrom(w) \/ ShowSeed(w) \/ Address(w)

SpecRoundTrip == Init /\ [][NextRoundTrip]_vars

\* The order hasher, evaluated on every order of a bounded set.
NextHasher == GetOrderHashHex

SpecHasher == Init /\ [][NextHasher]_vars

-----------------------------------------------------------------------------
(* Properties *)

Range(seq) == {seq[i] : i \in 1..Len(seq)}

Count(seq, x) == Cardinality({i \in 1..Len(seq) : seq[i] = x})

IsPrefix(s1, s2) == Len(s1) <= Len(s2) /\ \A i \in 1..Len(s1) : s1[i] = s2[i]

\* A container whose tag and version the loader accepts.
Accepted(walletData) ==
  walletData.type = WALLET_TYPE_ETHERS /\ walletData.version \in EXPECTED_VERSIONS

\* The call failed with the text e and made no collaborator call.
FailedWith(call, e) == ~call.res.ok /\ call.res.err = e /\ call.calls = <<>>

\* C1: on an EthersWallet on which no loadFrom has ever succeeded, signMsgHash
\* fails with the no-wallet error for every argument, hex digest or not, and
\* signs nothing: the slot is checked before the digest is validated.
C1_SignBeforeLoad ==
  (last.op = "signMsgHash" /\ loadedData[last.w] = Undefined)
    => FailedWith(last, EW_NO_WALLET)

C1_Witness ==
  /\ last.op = "signMsgHash"
  /\ loadedData[last.w] = Undefined
  /\ ~isHexString(last.arg)
  /\ last.res.err = EW_NO_WALLET

\* The operations of EthersWallet that need a loaded account.
NeedAccountOps ==
  {"address", "getAddress", "getWalletData", "signMsgHash", "signMessage", "confirm",
   "getBalance", "showSeed", "exportPrivateKey", "deployIdentity"}

\* C2: every operation that needs a loaded account, called on an empty slot,
\* fails with one and the same no-account error on both backends, and calls
\* neither the provider nor any other collaborator.
C2_UniformNoAccountError ==
  (/\ last.op \in NeedAccountOps /\ last.pre = Undefined
   /\ lwLast.op \in {"getBalance", "encrypt"} /\ lwLast.pre = Undefined)
    => /\ ~last.res.ok /\ last.calls = <<>>
       /\ ~lwLast.res.ok /\ lwLast.calls = <<>>
       /\ last.res.err = lwLast.res.err

\* C3: a loadFrom of a container whose tag or version is not accepted fails
\* and leaves the slot exactly as it was: a loaded account stays loaded with
\* the same address, an empty slot stays empty.
C3_RejectedLoadKeepsSlot ==
  (last.op = "loadFrom" /\ ~Accepted(last.arg))
    => /\ ~last.res.ok
       /\ walletFromEthers[last.w] = last.pre

C3_Witness ==
  /\ last.op = "loadFrom" /\ ~Accepted(last.arg)
  /\ last.arg.privateKey \in PrivateKeys
  /\ last.pre # Undefined
  /\ last.pre.address # last.arg.address
  /\ walletFromEthers[last.w].address = last.pre.address

\* C4: loadFrom runs verifyWalletData first, and WalletFromEthers.fromWalletData
\* is invoked only for a container whose tag and version were accepted.
C4_VerifyBeforePayload ==
  last.op = "loadFrom"
    => /\ last.calls # <<>>
       /\ last.calls[1] = "verifyWalletData"
       /\ "WalletFromEthers.fromWalletData" \in Range(last.calls) => Accepted(last.arg)

C4_Witness ==
  /\ last.op = "loadFrom" /\ ~Accepted(last.arg)
  /\ last.calls = <<"verifyWalletData">>

\* C5 as stated: after a successful create, recover* or loadFrom, the address
\* accessor returns the address of the account of that call.
C5_LastMakeWins ==
  (last.op \in MakingOps /\ last.res.ok)
    => /\ address(walletFromEthers[last.w]).res.ok
       /\ address(walletFromEthers[last.w]).res.val =
            (IF last.op = "loadFrom" THEN last.arg.address ELSE last.res.val.address)

\* C5 amended: the slot holds the account of the last successful loadFrom.
\* After any sequence of calls the address accessor returns the address in the
\* container of the last successful loadFrom, and fails with the no-wallet
\* error if there was none; create and recover* do not change the slot.
C5_LastLoadWins ==
  \A w \in Wallets :
    IF loadedData[w] = Undefined
      THEN FailedWith(address(walletFromEthers[w]), EW_NO_WALLET)
      ELSE /\ address(walletFromEthers[w]).res.ok
           /\ address(walletFromEthers[w]).res.val = loadedData[w].address

C5_Witness ==
  /\ last.op \in MakingOps \ {"loadFrom"} /\ last.res.ok
  /\ loadedData[last.w] # Undefined
  /\ last.res.val.address # loadedData[last.w].address
  /\ address(walletFromEthers[last.w]).res.val = loadedData[last.w].address

\* C6: once a loadFrom has succeeded on a wallet its slot is never empty
\* again, whatever is called afterwards, and the slot always holds either
\* nothing or one complete account.
C6_OnceLoadedStaysLoaded ==
  \A w \in Wallets :
    /\ walletFromEthers[w] = Undefined \/ walletFromEthers[w] \in Accounts
    /\ loadedData[w] # Undefined => walletFromEthers[w] \in Accounts

C6_Witness ==
  /\ last.op \in {"loadFrom", "confirm", "getBalance", "encrypt", "decrypt"}
  /\ ~last.res.ok
  /\ last.pre # Undefined
  /\ walletFromEthers[last.w] = last.pre

\* The stages of makeOrder, in the order the pipeline runs them.
MakeOrderStages == <<"getDecimals", "getFees", "getOrderHashHex", "signMsgHash", "postRequest">>

\* C7: makeOrder moves an order through Draft, FeesApplied, Hashed, Signed,
\* Submitted in that order, each stage run at most once: the hasher runs on
\* the fee-applied order, signMsgHash gets the hasher's digest, the POST is
\* issued only after signing succeeded, and after a failed stage no later
\* stage runs.
C7_PipelineOrder ==
  /\ IsPrefix(mo.steps, MakeOrderStages)
  /\ mo.status = "none" => Len(mo.steps) <= 1
  /\ mo.status = "Draft" => Len(mo.steps) = 2
  /\ mo.status = "FeesApplied" => Len(mo.steps) = 3 /\ mo.pc = "rejected"
  /\ mo.status = "Hashed" => Len(mo.steps) = 4 /\ mo.pc \in {"awaitSign", "rejected"}
  /\ mo.status = "Signed" => Len(mo.steps) = 5 /\ mo.pc \in {"awaitPost", "rejected"}
  /\ mo.status = "Submitted" => Len(mo.steps) = 5 /\ mo.pc = "resolved"
  /\ mo.hashed # Undefined => mo.hashed = getFees(mo.order)
  /\ mo.signArg # Undefined =>
       getOrderHashHex(mo.hashed).ok /\ mo.signArg = getOrderHashHex(mo.hashed).val
  /\ "signMsgHash" \in Range(mo.steps) => mo.signArg # Undefined
  /\ "postRequest" \in Range(mo.steps) =>
       mo.sig.ok /\ mo.status \in {"Signed", "Submitted"}
  /\ mo.pc = "rejected" => ~mo.result.ok

C7_Witness == mo.pc = "resolved" /\ mo.status = "Submitted" /\ mo.steps = MakeOrderStages

\* Signing failed: nothing was posted.
C7_WitnessSigningFails ==
  /\ mo.pc = "rejected" /\ mo.status = "Hashed" /\ mo.result.err = ERR_SIGNING
  /\ "postRequest" \notin Range(mo.steps)

\* The twelve fields of the order schema.
SchemaKeys ==
  {"exchangeContractAddress", "maker", "taker", "makerTokenAddress", "takerTokenAddress",
   "feeRecipient", "makerTokenAmount", "takerTokenAmount", "makerFee", "takerFee",
   "expirationUnixTimestampSec", "salt"}

SchemaFields(order) == [k \in SchemaKeys |-> order[k]]

AmountKeys == {"makerTokenAmount", "takerTokenAmount", "makerFee", "takerFee"}

\* C8: in makeOrder the hash is computed once, before signing: the hash of
\* the returned signed order is the digest that was passed to signMsgHash, and
\* the fields that were hashed are the fields returned and submitted.
C8_HashNeverRecomputed ==
  /\ Count(mo.steps, "getOrderHashHex") <= 1
  /\ mo.payload # Undefined =>
       \A k \in SchemaKeys :
         mo.payload[k] = IF k \in AmountKeys THEN toString(mo.hashed[k].raw) ELSE mo.hashed[k]
  /\ mo.pc = "resolved" =>
       /\ mo.result.val.hash = mo.signArg
       /\ mo.result.val.ecSignature = mo.sig.val.ecSignature
       /\ SchemaFields(mo.result.val) = SchemaFields(mo.hashed)

C8_Witness ==
  /\ mo.pc = "resolved"
  /\ mo.result.val.hash = mo.signArg
  /\ mo.result.val.makerTokenAmount.decimals = 2

\* C9: if the POST of makeOrder fails, the order stays Signed and the failure
\* reaches the caller; makeOrder issues at most one POST per call and never
\* retries it.
C9_PostFailureSurfaces ==
  /\ Count(mo.steps, "postRequest") <= 1
  /\ (mo.posted # Undefined /\ ~mo.posted.ok) =>
       /\ mo.pc = "rejected"
       /\ mo.status = "Signed"
       /\ mo.result = mo.posted

C9_Witness ==
  /\ mo.posted # Undefined /\ ~mo.posted.ok
  /\ mo.pc = "rejected" /\ mo.status = "Signed"
  /\ mo.steps = MakeOrderStages

\* A leg with an empty path that is not the no-network sentinel.
EmptyLeg(pathObj) == pathObj.path = <<>> /\ ~pathObj.isNoNetwork

\* C10: in prepTakeOrder, if the maker-token leg or the taker-token leg is an
\* empty path and not the sentinel, the call fails with the route-not-found
\* error and prepFuncTx is not called; when both legs are non-empty or
\* sentinel, the route check does not fail the call.
C10_RouteCheck ==
  pt.makerPathObj # Undefined =>
    IF EmptyLeg(pt.makerPathObj) \/ EmptyLeg(pt.takerPathObj)
      THEN /\ pt.pc = "rejected"
           /\ pt.result.err = ERR_NO_PATH
           /\ "prepFuncTx" \notin Range(pt.steps)
           /\ pt.prepArgs = Undefined
      ELSE /\ "prepFuncTx" \in Range(pt.steps)
           /\ pt.prepArgs # Undefined
           /\ pt.pc = "rejected" => pt.result.err # ERR_NO_PATH

C10_Witness ==
  /\ pt.makerPathObj # Undefined
  /\ pt.makerPathObj = NoNetworkRoute
  /\ EmptyLeg(pt.takerPathObj)
  /\ pt.pc = "rejected" /\ pt.result.err = ERR_NO_PATH

\* Both legs pass the check, one of them as the sentinel.
C10_WitnessSentinel ==
  /\ pt.makerPathObj # Undefined
  /\ pt.makerPathObj = NoNetworkRoute /\ pt.takerPathObj.path # <<>>
  /\ pt.pc = "resolved"

SchemaOrder ==
  <<"exchangeContractAddress", "maker", "taker", "makerTokenAddress", "takerTokenAddress",
    "feeRecipient", "makerTokenAmount", "takerTokenAmount", "makerFee", "takerFee",
    "expirationUnixTimestampSec", "salt">>

\* The value of a schema field that goes into the digest.
Hashed(order, k) ==
  IF k \in AmountKeys THEN toNumber(order[k].raw)
  ELSE IF k \in {"expirationUnixTimestampSec", "salt"} THEN toNumber(order[k])
  ELSE order[k]

\* C12: getOrderHashHex is a function of exactly the twelve schema fields in
\* their fixed order: an object with the same schema fields, whatever its
\* display values, decimals, signature or other keys, gets the same result,
\* and a digest packs twelve parts, the i-th being the i-th schema field, a
\* fee of zero included.
C12_HashOfSchemaFields ==
  hq.called =>
    /\ hq.res = hq.variantRes
    /\ hq.res.ok =>
         /\ hq.res.val.hex /\ hq.res.val.bytes = 32
         /\ Len(hq.res.val.body) = 12
         /\ \A i \in 1..12 :
              /\ hq.res.val.body[i].value = Hashed(hq.order, SchemaOrder[i])
              /\ hq.res.val.body[i].type = (IF i <= 6 THEN "address" ELSE "uint256")

\* A signed, redisplayed order with fees of zero was hashed.
C12_Witness ==
  /\ hq.called /\ hq.res.ok
  /\ "ecSignature" \in DOMAIN hq.variant
  /\ hq.variant.makerTokenAmount.value # hq.order.makerTokenAmount.value
  /\ hq.order.makerFee.raw = Small(0)
  /\ hq.res.val.body[9].value = Small(0)

\* n > 2^53
Above2p53(n) == n.top > 0 \/ n.hi > 2^26 \/ (n.hi = 2^26 /\ n.lo > 0)

\* The uint256 fields of the schema.
UintOf(order) ==
  {order.makerTokenAmount.raw, order.takerTokenAmount.raw, order.makerFee.raw,
   order.takerFee.raw, order.expirationUnixTimestampSec, order.salt}

\* C13: the hasher rejects an order one of whose uint256 fields is above 2^53:
\* it produces no digest, rather than the digest of a precision-reduced value.
C13_RejectsAbove2p53 ==
  (hq.called /\ \E n \in UintOf(hq.order) : Above2p53(n)) => ~hq.res.ok

\* An order whose addresses can be packed and whose maker amount is 2^53 + 1
\* was given to the hasher.
C13_Witness ==
  /\ hq.called
  /\ hq.order.makerTokenAmount.raw = Nat3(0, 2^26, 1)
  /\ hq.order.exchangeContractAddress = "0xE1"
  /\ ~hq.res.ok /\ hq.res.err = "Assertion failed"

\* C14 as stated: for every password and valid container,
\* loadFrom(encryptToSerializedKeystore(container, password)) succeeds and
\* loads an account with the container's address.
C14_LoadFromKeystore ==
  (last.op = "loadFrom" /\ held.kind = "keystore") =>
    IF last.res.ok THEN walletFromEthers[last.w].address = held.container.address
    ELSE FALSE

\* C14, amended: a valid container is serialized under every password; the
\* keystore is not a container, loadFrom rejects it on its tag and leaves the
\* slot alone; recoverFromEncryptedKeystore with the same password gives back
\* a container with the same address, and loadFrom of that container succeeds
\* and loads an account with the same address.
C14_KeystoreRoundTrip ==
  /\ last.op = "encryptToSerializedKeystore" =>
       /\ last.res.ok
       /\ held.kind = "keystore" /\ held.val = last.res.val
  /\ (last.op = "recoverFromEncryptedKeystore" /\ last.arg[2] = held.password) =>
       /\ last.res.ok
       /\ last.res.val.address = held.container.address
  /\ (last.op = "loadFrom" /\ held.kind = "keystore") =>
       /\ ~last.res.ok /\ last.res.err = ERR_WALLET_TYPE
       /\ walletFromEthers[last.w] = last.pre
  /\ (last.op = "loadFrom" /\ held.kind = "container" /\ held.password # "none") =>
       IF last.res.ok THEN walletFromEthers[last.w].address = held.container.address
       ELSE FALSE

\* A container went through a keystore and back and was loaded into a wallet
\* that held another account.
C14_Witness ==
  /\ last.op = "loadFrom" /\ last.res.ok
  /\ held.kind = "container" /\ held.password = "pw2"
  /\ last.pre # Undefined /\ last.pre.address # held.container.address
  /\ walletFromEthers[last.w].address = held.container.address

\* The wallet of the last call holds the account of the container the caller
\* made and loaded.
LoadedHeld == loadedData[last.w] # Undefined /\ loadedData[last.w] = held.container

\* C17: the container recoverFromPrivateKey returns carries no mnemonic, and
\* once it is loaded showSeed returns no seed; the container create or
\* recoverFromSeed returns carries its mnemonic, and once it is loaded
\* showSeed returns that mnemonic.
C17_SeedOnlyFromSeed ==
  /\ (last.op = "recoverFromPrivateKey" /\ last.res.ok) =>
       last.res.val.mnemonic = NoMnemonic
  /\ (last.op = "recoverFromSeed" /\ last.res.ok) => last.res.val.mnemonic = last.arg
  /\ (last.op = "create" /\ last.res.ok) => last.res.val.mnemonic \in Mnemonics
  /\ (last.op = "showSeed" /\ LoadedHeld) =>
       /\ last.res.ok
       /\ held.origin = "recoverFromPrivateKey" => last.res.val = NoMnemonic
       /\ held.origin \in {"create", "recoverFromSeed"} =>
            /\ last.res.val \in Mnemonics
            /\ last.res.val = held.container.mnemonic

\* showSeed was called on a wallet loaded from a key-only container.
C17_Witness ==
  /\ last.op = "showSeed" /\ LoadedHeld
  /\ held.origin = "recoverFromPrivateKey"
  /\ last.res.ok /\ last.res.val = NoMnemonic

\* showSeed was called on a wallet loaded from a container made from a seed.
C17_WitnessSeed ==
  /\ last.op = "showSeed" /\ LoadedHeld
  /\ held.origin = "recoverFromSeed"
  /\ last.res.ok /\ last.res.val = "m2"

\* C15: with an account loaded, signMsgHash fails with the invalid-input error
\* and signs nothing for every argument that is not a well-formed 32-byte
\* hash, a hex string of another length included.
C15_RejectsNonHash ==
  (/\ last.op = "signMsgHash" /\ last.pre # Undefined
   /\ ~(last.arg.hex /\ last.arg.bytes = 32))
    => FailedWith(last, EW_NOT_HEX)

\* C16: on an EthersWallet encrypt and decrypt fail with the not-implemented
\* error for every input, with or without a loaded account, call no
\* collaborator and leave the slot as it was.
C16_EncryptNotSupported ==
  last.op \in {"encrypt", "decrypt"} =>
    /\ FailedWith(last, EW_NOT_IMPLEMENTED)
    /\ walletFromEthers[last.w] = last.pre

\* encrypt was called on a wallet with no account.
C16_Witness ==
  /\ last.op = "encrypt" /\ last.pre = Undefined
  /\ ~last.res.ok /\ last.res.err = EW_NOT_IMPLEMENTED

\* decrypt was called on a wallet with an account.
C16_WitnessLoaded ==
  /\ last.op = "decrypt" /\ last.pre # Undefined
  /\ ~last.res.ok /\ walletFromEthers[last.w] = last.pre

\* C18: recoverFromSeed is deterministic and independent of the wallet's
\* state: every successful call with a seed, on whichever instance and after
\* whatever calls, returns a container with the address the first call with
\* that seed returned.
C18_SeedDeterminesAddress ==
  (last.op = "recoverFromSeed" /\ last.res.ok) =>
    /\ seedSeen[last.arg] # "none"
    /\ last.res.val.address = seedSeen[last.arg]

\* A seed was recovered on the second instance while it held another account
\* and the first instance held none.
C18_Witness ==
  /\ last.op = "recoverFromSeed" /\ last.res.ok
  /\ last.w = "other"
  /\ last.pre # Undefined /\ last.pre.address # last.res.val.address
  /\ walletFromEthers["tl"] = Undefined
  /\ seedSeen[last.arg] = last.res.val.address

\* C19: confirm signs the raw transaction with the loaded account and then
\* submits it through the provider exactly once, returning what the provider
\* answers; with no account, or when signing fails, the provider is never
\* called; a failed submission is passed on and not retried.  Exchange.confirm
\* does the same through the user's signTx and the transaction's relayTx.
C19_SignThenSubmitOnce ==
  /\ last.op = "confirm" =>
       /\ Count(last.calls, "provider.sendSignedTransaction") <= 1
       /\ last.pre = Undefined => FailedWith(last, EW_NO_WALLET)
       /\ (last.pre # Undefined /\ ~last.arg.rawTx.wellFormed) =>
            /\ ~last.res.ok
            /\ "provider.sendSignedTransaction" \notin Range(last.calls)
       /\ (last.pre # Undefined /\ last.arg.rawTx.wellFormed) =>
            /\ last.calls = <<"WalletFromEthers.sign", "provider.sendSignedTransaction">>
            /\ last.res.ok = last.arg.sent.ok
            /\ last.res.ok => last.res.val = last.arg.sent.val
            /\ ~last.res.ok => last.res.err = last.arg.sent.err
       /\ walletFromEthers[last.w] = last.pre
  /\ last.op = "Exchange.confirm" =>
       /\ Count(last.calls, "transaction.relayTx") <= 1
       /\ ~last.arg.signed.ok =>
            /\ last.calls = <<"user.signTx">>
            /\ ~last.res.ok /\ last.res.err = last.arg.signed.err
       /\ last.arg.signed.ok =>
            /\ last.calls = <<"user.signTx", "transaction.relayTx">>
            /\ last.res.ok = last.arg.relayed.ok
            /\ last.res.ok => last.res.val = last.arg.relayed.val
            /\ ~last.res.ok => last.res.err = last.arg.relayed.err

\* A signed transaction was submitted and the provider failed.
C19_Witness ==
  /\ last.op = "confirm" /\ last.pre # Undefined
  /\ last.calls = <<"WalletFromEthers.sign", "provider.sendSignedTransaction">>
  /\ ~last.res.ok /\ last.res.err = ERR_TRANSPORT

\* A signed transaction was submitted and the provider answered with its id.
C19_WitnessSent ==
  /\ last.op = "confirm" /\ last.res.ok /\ last.res.val = "txid1"

\* The keystore steps the unit tests make fail, per vault operation.
VaultSteps(call) ==
  CASE call.op = "createAccount" ->
         {"createVault", "generateRandomSeed", "keyFromPassword", "generateNewAddress",
          "addressToPublicEncKey"}
    [] call.op = "loadAccount" ->
         {"keyFromPassword", "generateNewAddress", "addressToPublicEncKey"}
           \cup (IF call.arg.format = "legacy" THEN {"upgradeOldSerialized"} ELSE {})
    [] call.op = "signMsgHash" -> {"keyFromPassword", "signMsgHash"}
    [] call.op = "encrypt" -> {"keyFromPassword", "multiEncryptString"}
    [] OTHER -> {}

\* C20: when a keystore step of createAccount, loadAccount, signMsgHash or
\* encrypt fails, the vault operation ends as a rejected promise: it does not
\* succeed, it runs no step after the failed one, and the loaded account is
\* what it was.
C20_VaultFailureRejects ==
  lwLast.failing \in VaultSteps(lwLast) =>
    /\ ~lwLast.res.ok
    /\ lwLast.res.err \in LWSteps \cup {LW_NO_ACCOUNT}
    /\ lwLast.calls # <<>> => lwLast.calls[Len(lwLast.calls)] = lwLast.failing
    /\ lwAccount = lwLast.pre

\* signMsgHash was called with an account loaded and the keystore's signing
\* step failed, after keyFromPassword had run.
C20_Witness ==
  /\ lwLast.op = "signMsgHash" /\ lwLast.failing = "signMsgHash"
  /\ lwLast.pre # Undefined
  /\ lwLast.calls = <<"keyFromPassword", "signMsgHash">>
  /\ ~lwLast.res.ok

\* createAccount was called and createVault failed.
C20_WitnessCreate ==
  /\ lwLast.op = "createAccount" /\ lwLast.failing = "createVault"
  /\ ~lwLast.res.ok

\* The account loadAccount answers for the current-version keystore of a seed.
CurrentVersionAccount(seed) ==
  lwLoadAccount(Undefined, [format |-> "current", seed |-> seed], "none").res.val

\* C21: loading a legacy vault keystore runs the format upgrade exactly once,
\* before any other keystore step, and yields a loaded account (address,
\* keystore, pubKey) with the address that loading the current-version
\* keystore of the same seed yields; loading a current-version keystore runs
\* no upgrade; when the upgrade fails loadAccount is rejected.
C21_LegacyUpgradedOnce ==
  lwLast.op = "loadAccount" =>
    /\ Count(lwLast.calls, "upgradeOldSerialized") =
         (IF lwLast.arg.format = "legacy" THEN 1 ELSE 0)
    /\ lwLast.arg.format = "legacy" => lwLast.calls[1] = "upgradeOldSerialized"
    /\ (lwLast.arg.format = "legacy" /\ lwLast.failing = "upgradeOldSerialized") =>
         /\ ~lwLast.res.ok
         /\ lwLast.calls = <<"upgradeOldSerialized">>
         /\ lwAccount = lwLast.pre
    /\ lwLast.res.ok =>
         /\ DOMAIN lwLast.res.val = {"address", "keystore", "pubKey"}
         /\ lwLast.res.val.address = CurrentVersionAccount(lwLast.arg.seed).address
         /\ lwLast.res.val.keystore.format = "current"
         /\ lwAccount = lwLast.res.val

\* A legacy keystore was loaded over the account of another seed.
C21_Witness ==
  /\ lwLast.op = "loadAccount" /\ lwLast.arg.format = "legacy" /\ lwLast.res.ok
  /\ lwLast.pre # Undefined /\ lwLast.pre.address # lwLast.res.val.address
  /\ lwLast.calls[1] = "upgradeOldSerialized"

\* A legacy keystore was given to loadAccount and the upgrade failed.
C21_WitnessUpgradeFails ==
  /\ lwLast.op = "loadAccount" /\ lwLast.arg.format = "legacy"
  /\ lwLast.failing = "upgradeOldSerialized" /\ ~lwLast.res.ok

\* What a getTxInfos call must have done: one provider request, the answer of
\* the provider for the address given as argument, the account left alone.
AnswersForArgument(call, before, after) ==
  /\ Len(call.calls) = 1
  /\ after = before
  /\ call.res.ok = call.arg.provider[call.arg.address].ok
  /\ call.res.ok =>
       /\ DOMAIN call.res.val = {"nonce", "gasPrice", "balance"}
       /\ call.res.val = TxInfosOf(call.arg.address)

\* C22: getTxInfos(address) needs no loaded account: on an empty slot as on a
\* loaded one it returns the provider's nonce, gasPrice and balance of the
\* address given as argument, not of the loaded account, and it never changes
\* the slot; the same on the vault backend.
C22_TxInfosNeedNoAccount ==
  /\ last.op = "getTxInfos" =>
       /\ AnswersForArgument(last, last.pre, walletFromEthers[last.w])
       /\ last.calls = <<"provider.getTxInfos">>
  /\ lwLast.op = "getTxInfos" => AnswersForArgument(lwLast, lwLast.pre, lwAccount)

\* getTxInfos answered on a wallet with no account.
C22_Witness ==
  /\ last.op = "getTxInfos" /\ last.pre = Undefined
  /\ last.res.ok /\ last.res.val.balance = "7"

\* getTxInfos answered for an address other than the loaded account's.
C22_WitnessOtherAddress ==
  /\ last.op = "getTxInfos" /\ last.pre # Undefined
  /\ last.pre.address # last.arg.address
  /\ last.res.ok /\ last.res.val = TxInfosOf(last.arg.address)

\* getTxInfos answered on a vault with no account.
C22_WitnessVault ==
  /\ lwLast.op = "getTxInfos" /\ lwLast.pre = Undefined /\ lwLast.res.ok

SigningOps == {"signMsgHash", "signMessage"}

\* C23: wallet instances share no mutable state: a call on one EthersWallet,
\* successful or failing, leaves the slot of every other instance as it was;
\* and the TLNetwork's wallet and signer being one instance, what its signer
\* signs with is the account last loaded through its wallet.
C23_InstancesIndependent ==
  /\ [][\A w \in Wallets : w # last'.w => walletFromEthers'[w] = walletFromEthers[w]]_vars
  /\ [](TLNetwork.signer = TLNetwork.wallet)
  /\ []((last.w = TLNetwork.signer /\ last.op \in SigningOps /\ last.res.ok) =>
          /\ loadedData[TLNetwork.wallet] # Undefined
          /\ last.res.val.ecSignature.signer = loadedData[TLNetwork.wallet].privateKey)

\* An account was loaded into the second instance while the TLNetwork's
\* wallet held another one, which it still holds.
C23_Witness ==
  /\ last.w = "other" /\ last.op = "loadFrom" /\ last.res.ok
  /\ walletFromEthers["tl"] # Undefined
  /\ walletFromEthers["tl"].address # walletFromEthers["other"].address
  /\ walletFromEthers["tl"].address = loadedData["tl"].address

\* The TLNetwork's signer signed while the second instance held another account.
C23_WitnessSigner ==
  /\ last.w = "tl" /\ last.op = "signMsgHash" /\ last.res.ok
  /\ walletFromEthers["other"] # Undefined
  /\ walletFromEthers["other"].privateKey # last.res.val.ecSignature.signer

\* Where each amount of the schema sits among the twelve hashed parts.
PartOfAmount ==
  [makerTokenAmount |-> 7, takerTokenAmount |-> 8, makerFee |-> 9, takerFee |-> 10]

\* An amount triple: raw, display value, decimals.
IsAmountTriple(a) == DOMAIN a = {"raw", "value", "decimals"}

\* C24: the payload makeOrder hands to the transport carries the four amounts
\* as raw integer strings, the raw component of each amount triple and not the
\* triple, these raws are the values that were hashed, and the signed order
\* returned to the caller keeps the triples.
C24_PayloadCarriesRaws ==
  /\ mo.payload # Undefined =>
       \A k \in AmountKeys :
         /\ DOMAIN mo.payload[k] = {"digits"}
         /\ mo.payload[k] = toString(mo.orderWithFees[k].raw)
         /\ mo.payload[k].digits = mo.orderHash.body[PartOfAmount[k]].value
         /\ IsAmountTriple(mo.signedOrder[k])
  /\ mo.pc = "resolved" =>
       \A k \in AmountKeys :
         /\ IsAmountTriple(mo.result.val[k])
         /\ mo.result.val[k] = mo.orderWithFees[k]

\* An order of 100 units at two decimals was submitted: its payload carries
\* the raw 10000, the returned order the triple.
C24_Witness ==
  /\ mo.pc = "resolved"
  /\ mo.payload.makerTokenAmount.digits = Small(10000)
  /\ mo.result.val.makerTokenAmount.value = Small(100)
  /\ mo.result.val.makerTokenAmount.decimals = 2

\* The calls that make or serialize a container.
ReturningOps ==
  {"create", "recoverFromSeed", "recoverFromPrivateKey", "recoverFromEncryptedKeystore",
   "encryptToSerializedKeystore"}

\* C25: only a successful loadFrom populates the slot: create, recoverFromSeed,
\* recoverFromPrivateKey, recoverFromEncryptedKeystore and
\* encryptToSerializedKeystore return a container or keystore and leave the
\* slot as it was, so a wallet on which no loadFrom succeeded has an empty
\* slot after any number of them, and signMsgHash on it fails with the
\* no-account error.
C25_OnlyLoadFromPopulates ==
  /\ last.op \in ReturningOps =>
       /\ walletFromEthers[last.w] = last.pre
       /\ last.res.ok =>
            IF last.op = "encryptToSerializedKeystore"
              THEN "wellFormed" \in DOMAIN last.res.val
              ELSE last.res.val.type = WALLET_TYPE_ETHERS
  /\ (last.op # "loadFrom" \/ ~last.res.ok) => walletFromEthers[last.w] = last.pre
  /\ \A w \in Wallets : loadedData[w] = Undefined => walletFromEthers[w] = Undefined
  /\ (last.op = "signMsgHash" /\ loadedData[last.w] = Undefined) =>
       /\ ~last.res.ok /\ last.res.err = EW_NO_WALLET

\* A keystore was recovered on a wallet on which nothing was ever loaded.
C25_Witness ==
  /\ last.op = "recoverFromEncryptedKeystore" /\ last.res.ok
  /\ loadedData[last.w] = Undefined
  /\ walletFromEthers[last.w] = Undefined

\* signMsgHash failed on a fresh wallet after a seed had been recovered and
\* no loadFrom had succeeded on any instance.
C25_WitnessSignAfterRecover ==
  /\ last.op = "signMsgHash" /\ ~last.res.ok /\ last.res.err = EW_NO_WALLET
  /\ seedSeen["m1"] # "none"
  /\ \A w \in Wallets : loadedData[w] = Undefined

\* What getPathObj must have done for one leg.
RouteResolved(leg) ==
  /\ leg.calls[1] = "currencyNetwork.isNetwork"
  /\ ("payment.getPath" \in Range(leg.calls)) <=> (leg.isNet.ok /\ leg.isNet.val)
  /\ Count(leg.calls, "payment.getPath") <= 1
  /\ (leg.isNet.ok /\ ~leg.isNet.val) =>
       /\ leg.res.ok
       /\ leg.res.val.path = <<>> /\ leg.res.val.maxFees = 0
       /\ leg.res.val.estimatedGas = 40000 /\ leg.res.val.isNoNetwork
  /\ (leg.isNet.ok /\ leg.isNet.val /\ leg.res.ok) => ~leg.res.val.isNoNetwork

\* C26: getPathObj calls the path-finding collaborator if and only if the
\* token is a trustline network; otherwise it returns the sentinel route
\* (empty path, no fees, estimated gas 40000, isNoNetwork) without calling
\* it; an empty path that the collaborator returned is not taken for the
\* sentinel: the route check fails the call on it.
C26_SentinelOnlyOffNetwork ==
  pt.routes # Undefined =>
    /\ \A i \in 1..2 : RouteResolved(pt.routes[i])
    /\ (/\ pt.routes[1].res.ok /\ pt.routes[2].res.ok
        /\ \E i \in 1..2 : /\ pt.routes[i].isNet.val
                           /\ pt.routes[i].res.val.path = <<>>) =>
         /\ pt.pc = "rejected" /\ pt.result.err = ERR_NO_PATH
         /\ "prepFuncTx" \notin Range(pt.steps)

\* The maker leg's token is no network and got the sentinel; the taker leg's
\* token is one and the collaborator found an empty path for it.
C26_Witness ==
  /\ pt.routes # Undefined
  /\ pt.routes[1].isNet.ok /\ ~pt.routes[1].isNet.val
  /\ pt.routes[1].calls = <<"currencyNetwork.isNetwork">>
  /\ pt.routes[2].isNet.ok /\ pt.routes[2].isNet.val
  /\ pt.routes[2].res.ok /\ pt.routes[2].res.val.path = <<>>
  /\ pt.pc = "rejected"

-----------------------------------------------------------------------------
(* C27 *)

\* The signed orders a pending makeOrder holds: the one it built, the one it
\* POSTs, the one it returns.
MadeSignedOrders ==
  (IF mo.signedOrder # Undefined THEN {mo.signedOrder} ELSE {})
    \cup (IF mo.payload # Undefined THEN {mo.payload} ELSE {})
    \cup (IF mo.pc = "resolved" THEN {mo.result.val} ELSE {})

\* C27 as stated: every signed order makeOrder submits or returns is signed by
\* the account named in its maker field, whatever loadFrom calls are
\* interleaved with the pending makeOrder.
C27_SignedByMaker ==
  \A so \in MadeSignedOrders : AddressOf(so.ecSignature.signer) = so.maker

\* C27 amended: maker names the account in the slot when the order was
\* assembled (after the decimals await), ecSignature is made with the key of
\* the account in the slot when user.signMsgHash was called (after the getFees
\* await); they are the same account when no loadFrom replaced the account
\* between these two points, and a loadFrom after the signMsgHash call changes
\* neither.
C27_SignedByMakerUnlessReloaded ==
  \A so \in MadeSignedOrders :
    /\ so.maker = mo.makerSlot.address
    /\ so.ecSignature.signer = mo.signerSlot.privateKey
    /\ mo.makerSlot.address = mo.signerSlot.address =>
         AddressOf(so.ecSignature.signer) = so.maker

\* An order is returned, signed by its maker, although another account was
\* loaded after signMsgHash had been called.
C27_Witness ==
  /\ mo.pc = "resolved"
  /\ mo.makerSlot = mo.signerSlot
  /\ AddressOf(mo.result.val.ecSignature.signer) = mo.result.val.maker
  /\ walletFromEthers["tl"] # Undefined
  /\ walletFromEthers["tl"].address # mo.result.val.maker

\* An order is POSTed whose signature is not its maker's: another account
\* was loaded while getFees was awaited.
C27_WitnessReloaded ==
  /\ mo.pc = "resolved"
  /\ mo.makerSlot.address # mo.signerSlot.address
  /\ AddressOf(mo.payload.ecSignature.signer) # mo.payload.maker

-----------------------------------------------------------------------------
(* C28 *)

\* C28: a signMsgHash, signMessage or confirm call signs with the key of the
\* account that was in the slot when the call was made, whatever loadFrom
\* calls complete while it is pending; both forms of a returned signature are
\* made with that one key, over the message the call was given.
C28_SignsWithSlotAtCall ==
  /\ pendingSign.signedTx # Undefined =>
       /\ pendingSign.signedTx.signer = pendingSign.slotAtCall.privateKey
       /\ pendingSign.signedTx.tx = pendingSign.arg
  /\ (pendingSign.pc = "settled" /\ pendingSign.op # "confirm" /\ pendingSign.res.ok) =>
       /\ pendingSign.res.val.concatSig.signer = pendingSign.slotAtCall.privateKey
       /\ pendingSign.res.val.ecSignature = pendingSign.res.val.concatSig
       /\ pendingSign.res.val =
            signMessage(pendingSign.slotAtCall, pendingSign.message).res.val

\* A signature was returned by the account of the call although another
\* account had been loaded before the signing promise settled.
C28_Witness ==
  /\ pendingSign.pc = "settled" /\ pendingSign.op = "signMsgHash" /\ pendingSign.res.ok
  /\ walletFromEthers["tl"].privateKey # pendingSign.slotAtCall.privateKey
  /\ pendingSign.res.val.ecSignature.signer = pendingSign.slotAtCall.privateKey

\* The same for a transaction handed to the provider by confirm.
C28_WitnessConfirm ==
  /\ pendingSign.pc = "settled" /\ pendingSign.op = "confirm" /\ pendingSign.res.ok
  /\ walletFromEthers["tl"].privateKey # pendingSign.slotAtCall.privateKey
  /\ pendingSign.signedTx.signer = pendingSign.slotAtCall.privateKey

-----------------------------------------------------------------------------
(* C29 *)

\* The order addresses and order values the contract needs to recompute the
\* digest getOrderHashHex computes for `order`: parts 2..6 and 7..12.
HashedAddresses(order) == [i \in 1..5 |-> orderParts(order)[i + 1].value]
HashedValues(order) == [i \in 1..6 |-> orderParts(order)[i + 6].value]

\* C29 as stated: the order addresses and order values prepTakeOrder and
\* cancelOrder send to the exchange contract equal, field by field, what
\* getOrderHashHex hashes for the same order (after getFees), and that digest
\* is the one the maker signed.
C29_CallMatchesHash ==
  /\ pt.prepArgs # Undefined =>
       /\ pt.prepArgs.orderAddresses = HashedAddresses(pt.orderWithFees)
       /\ pt.prepArgs.orderValues = HashedValues(pt.orderWithFees)
       /\ getOrderHashHex(pt.orderWithFees) = Ok(pt.args.signedOrder.hash)
  /\ co.prepArgs # Undefined =>
       /\ co.prepArgs.args[1] = HashedAddresses(co.orderWithFees)
       /\ co.prepArgs.args[2] = HashedValues(co.orderWithFees)
       /\ getOrderHashHex(co.orderWithFees) = Ok(co.args.signedOrder.hash)

\* What does hold: every field but the taker is sent as it is hashed; the
\* taker is sent as the zero address whatever the order names.
C29_CallMatchesHashButTaker ==
  /\ pt.prepArgs # Undefined =>
       /\ \A i \in {1, 3, 4, 5} :
            pt.prepArgs.orderAddresses[i] = HashedAddresses(pt.orderWithFees)[i]
       /\ pt.prepArgs.orderAddresses[2] = ZERO_ADDRESS
       /\ pt.prepArgs.orderValues = HashedValues(pt.orderWithFees)
  /\ co.prepArgs # Undefined =>
       /\ \A i \in {1, 3, 4, 5} :
            co.prepArgs.args[1][i] = HashedAddresses(co.orderWithFees)[i]
       /\ co.prepArgs.args[1][2] = ZERO_ADDRESS
       /\ co.prepArgs.args[2] = HashedValues(co.orderWithFees)

\* A call is prepared for an order that names its taker: the taker sent is
\* not the taker hashed.
C29_WitnessNamedTaker ==
  /\ pt.prepArgs # Undefined
  /\ pt.orderWithFees.taker # ZERO_ADDRESS
  /\ pt.prepArgs.orderAddresses[2] # HashedAddresses(pt.orderWithFees)[2]

C29_WitnessNamedTakerCancelled ==
  /\ co.prepArgs # Undefined
  /\ co.orderWithFees.taker # ZERO_ADDRESS
  /\ co.prepArgs.args[1][2] # HashedAddresses(co.orderWithFees)[2]

====
